---- MODULE Spec2Model ----
(***************************************************************************)
(* SmartCommit: model of the staging coordinator (GitManager), the         *)
(* completion-retry engine (AIManager), the grouped-commit orchestrator    *)
(* and the single-commit flow (SmartCommit).                               *)
(*                                                                         *)
(* The git collaborator (simple-git) is modelled at file granularity:      *)
(*   pending  files whose index or working tree differs from HEAD          *)
(*   staged   files whose change is in the index (a subset of pending)     *)
(*   commits  the file sets of the commits created so far                  *)
(* `git reset HEAD` empties the index and keeps the working tree;          *)
(* `git add f` puts f's change in the index when f has one and is a no-op  *)
(* for an unchanged file; any git call may throw.                          *)
(***************************************************************************)
EXTENDS Integers, Sequences, FiniteSets, TLC

VARIABLES
    pc,              \* position of the running flow
    pending,         \* git: files differing from HEAD
    staged,          \* git: files staged in the index
    commits,         \* git: commits created, each [p, files, pushed]
    gitOps,          \* git calls made so far by the apply (or staging call) in progress
    selectedFiles,   \* argument of the stageSelectedFiles call under test
    stageResult,     \* "none" | "returned" | "threw" for that call
    stagedBefore,    \* index as it was when that call started
    proposals,       \* grouped run: the proposals' `files` lists, in supplied order
    flags,           \* command-line flags of the run: [auto, files, only]
    pass,            \* grouped run: 1 = main loop, 2 = review of skipped commits
    idx,             \* grouped run: position in the list being walked
    skippedCommits,  \* grouped run: proposals skipped in pass 1 (indices)
    committedCount,  \* grouped run: counter reported to the user
    cur,             \* commitData being applied by executeCommit
    decisions,       \* decisions taken so far: [p, pass, action, asked]
    outcomes,        \* finished applies: [p, success]
    records,         \* history generations: [p, accepted]
    exitCode,        \* -1 while running, else the process exit status
    attempts,        \* processCommit: outer attempt counter
    attempt,         \* generateCommitMessage: loop counter
    calls,           \* completion calls made by the generateCommitMessage call in progress
    totalCalls,      \* completion calls made over the whole run
    sleeps,          \* backoff delays (seconds) of the call in progress
    genLog,          \* responses of the attempts of the call in progress
    genResult,       \* "none" | "returned" | "threw"
    genError,        \* the error generateCommitMessage threw: [attempts, last], or NoError
    failedApply,     \* processCommit: an accepted proposal's apply has failed
    diffOutput,      \* diff text of one file, as a sequence of lines
    radius,          \* context radius
    totalLines,      \* number of lines of the file
    changedLines,    \* result of extractChangedLines
    blocks,          \* result of getContextBlocks: [startLine, endLine]
    statusFiles,     \* getFileContentsWithRadius: the files argument, [path, status]
    fileIdx,         \* getFileContentsWithRadius: position of the for loop
    contents,        \* getFileContentsWithRadius: entries written so far, a set of [path, kind]
    answers,         \* what the file system and git answer for the file being excerpted
    requestArgs,     \* buildStructuredRequest: its arguments
    cwd,             \* process.cwd() at this moment
    payloads,        \* buildStructuredRequest: the payloads returned so far
    options,         \* run(): program.opts() as commander parsed the command line
    flows,           \* run(): the flows entered, in order
    aiResponse,      \* parseCommitMessage: the response text
    commitData       \* parseCommitMessage: what the call came to

gitVars == <<pending, staged, commits, gitOps>>
stageVars == <<selectedFiles, stageResult, stagedBefore>>
groupVars == <<proposals, pass, idx, skippedCommits, committedCount>>
runVars == <<flags, cur, decisions, outcomes, records, exitCode>>
genVars == <<attempt, calls, totalCalls, sleeps, genLog, genResult, genError>>
singleVars == <<attempts, failedApply>>
diffVars == <<diffOutput, radius, totalLines, changedLines, blocks>>
excerptVars == <<statusFiles, fileIdx, contents>>
requestVars == <<requestArgs, cwd, payloads>>
dispatchVars == <<options, flows>>
parseVars == <<aiResponse, commitData>>
moreVars == <<answers, requestVars, dispatchVars, parseVars>>
contextVars == <<diffVars, excerptVars, moreVars>>
coreVars == <<gitVars, stageVars, groupVars, runVars, genVars, singleVars>>
vars == <<pc, gitVars, stageVars, groupVars, runVars, genVars, singleVars, contextVars>>

(***************************************************************************)
(* Bounds                                                                  *)
(***************************************************************************)
MaxFiles == 2        \* longest file list handed to stageSelectedFiles
MaxProposals == 3    \* most proposals in a grouped run

Files == {"a", "b", "c"}

\* file lists of length 0..MaxFiles (an absent list and an empty one take the
\* same branch at every test in the code, so both are <<>>)
FileLists == UNION {[1..n -> Files] : n \in 0..MaxFiles}

Range(s) == {s[i] : i \in 1..Len(s)}

(***************************************************************************)
(* Git collaborator                                                        *)
(***************************************************************************)
\* git.add(file): stages the file's change, if it has one
GitAdd(st, pend, file) == st \cup ({file} \cap pend)

\* git.add('.') as called by stageAllChanges
StageAll(st, pend) == pend

\* the for-loop of stageSelectedFiles from position i on; failAt is the number
\* of the git call that throws (1 = reset, i+1 = add of files[i], 0 = none)
RECURSIVE AddLoop(_, _, _, _, _, _)
AddLoop(files, i, st, pend, ops, failAt) ==
    IF i > Len(files)
    THEN [ok |-> TRUE, staged |-> st, ops |-> ops]
    ELSE IF failAt = i + 1
    THEN [ok |-> FALSE, staged |-> st, ops |-> Append(ops, <<"add", files[i]>>)]
    ELSE AddLoop(files, i + 1, GitAdd(st, pend, files[i]), pend,
                 Append(ops, <<"add", files[i]>>), failAt)

\* faulty variant: no reset before the adds
StageNoReset(files, st, pend, failAt) ==
    IF Len(files) = 0
    THEN [ok |-> FALSE, staged |-> st, ops |-> <<>>]
    ELSE AddLoop(files, 1, st, pend, <<>>, failAt)

\* faulty variant: the reset comes before the emptiness test
StageResetFirst(files, st, pend, failAt) ==
    IF failAt = 1
    THEN [ok |-> FALSE, staged |-> st, ops |-> <<<<"reset", "HEAD">>>>]
    ELSE IF Len(files) = 0
    THEN [ok |-> FALSE, staged |-> {}, ops |-> <<<<"reset", "HEAD">>>>]
    ELSE AddLoop(files, 1, {}, pend, <<<<"reset", "HEAD">>>>, failAt)

\* GitManager.stageSelectedFiles
StageSelectedFiles(files, st, pend, failAt) ==
    IF Len(files) = 0
    THEN [ok |-> FALSE, staged |-> st, ops |-> <<>>]
    ELSE IF failAt = 1
    THEN [ok |-> FALSE, staged |-> st, ops |-> <<<<"reset", "HEAD">>>>]
    ELSE AddLoop(files, 1, {}, pend, <<<<"reset", "HEAD">>>>, failAt)

\* GitManager.stageAllChanges; failAt = 1 when git.add('.') throws
StageAllChanges(st, pend, failAt) ==
    IF failAt = 1
    THEN [ok |-> FALSE, staged |-> st, ops |-> <<<<"add", ".">>>>]
    ELSE [ok |-> TRUE, staged |-> StageAll(st, pend), ops |-> <<<<"add", ".">>>>]

\* values of the variables a specification does not use
NoError == [attempts |-> 0, last |-> "none"]
NoFlags == [auto |-> FALSE, files |-> FALSE, only |-> FALSE]
NoCommitData == [p |-> 0, files |-> <<>>, selectedFiles |-> <<>>,
                 interactiveStaged |-> FALSE, filesSelected |-> FALSE, gen |-> 0]

StageIdle ==
    /\ selectedFiles = <<>> /\ stageResult = "none" /\ stagedBefore = {}
GroupIdle ==
    /\ proposals = <<>> /\ pass = 0 /\ idx = 0
    /\ skippedCommits = <<>> /\ committedCount = 0
RunIdle ==
    /\ flags = NoFlags /\ cur = NoCommitData /\ decisions = <<>>
    /\ outcomes = <<>> /\ records = <<>> /\ exitCode = -1
GenIdle ==
    /\ attempt = 0 /\ calls = 0 /\ totalCalls = 0 /\ sleeps = <<>>
    /\ genLog = <<>> /\ genResult = "none" /\ genError = NoError
SingleIdle ==
    /\ attempts = 0 /\ failedApply = FALSE
DiffIdle ==
    /\ diffOutput = <<>> /\ radius = 0 /\ totalLines = 0
    /\ changedLines = <<>> /\ blocks = <<>>
ExcerptIdle ==
    /\ statusFiles = <<>> /\ fileIdx = 0 /\ contents = {}
NoAnswers == [exists |-> FALSE]
NoArgs == [files |-> <<>>]
NoOptions == [clean |-> FALSE]
NoText == [json |-> "none"]
NoCommit == [outcome |-> "none"]
MoreIdle ==
    /\ answers = NoAnswers
    /\ requestArgs = NoArgs /\ cwd = <<>> /\ payloads = <<>>
    /\ options = NoOptions /\ flows = <<>>
    /\ aiResponse = NoText /\ commitData = NoCommit
ContextIdle == DiffIdle /\ ExcerptIdle /\ MoreIdle

(***************************************************************************)
(* Staging coordinator on its own: one call of stageSelectedFiles on any   *)
(* file list and any prior index / working tree.                           *)
(***************************************************************************)
StageInit ==
    /\ pc = "stage_call"
    /\ pending \in SUBSET Files
    /\ staged \in SUBSET pending
    /\ commits = <<>>
    /\ gitOps = <<>>
    /\ selectedFiles \in FileLists
    /\ stageResult = "none"
    /\ stagedBefore = staged
    /\ GroupIdle /\ RunIdle /\ GenIdle /\ SingleIdle /\ ContextIdle

StageCall ==
    /\ pc = "stage_call"
    /\ \E failAt \in 0..(Len(selectedFiles) + 1) :
         LET r == StageSelectedFiles(selectedFiles, staged, pending, failAt) IN
           /\ staged' = r.staged
           /\ gitOps' = r.ops
           /\ stageResult' = IF r.ok THEN "returned" ELSE "threw"
    /\ pc' = "stage_done"
    /\ UNCHANGED <<pending, commits, selectedFiles, stagedBefore>>
    /\ UNCHANGED <<groupVars, runVars, genVars, singleVars, contextVars>>

StageNext == StageCall

SpecStage == StageInit /\ [][StageNext]_vars

(***************************************************************************)
(* executeCommit: the staging branch, the commit call and the push call    *)
(***************************************************************************)
NoStaging(st) == [ok |-> TRUE, staged |-> st, ops |-> <<>>]

\* SmartCommit.executeCommit, staging branch
ExecuteStaging(cd, st, pend, failAt) ==
    IF cd.interactiveStaged THEN NoStaging(st)
    ELSE IF cd.filesSelected THEN NoStaging(st)
    ELSE IF Len(cd.files) > 0
    THEN StageSelectedFiles(cd.files, st, pend, failAt)
    ELSE IF Len(cd.selectedFiles) > 0
    THEN StageSelectedFiles(cd.selectedFiles, st, pend, failAt)
    ELSE StageAllChanges(st, pend, failAt)

\* git.commit(message) that does not throw: the staged changes become a
\* commit; with nothing staged no commit is created
CommitCreated(cs, p, st) ==
    IF st = {} THEN cs ELSE Append(cs, [p |-> p, files |-> st, pushed |-> FALSE])

\* git.push() (possibly retried with --set-upstream) that does not throw
MarkPushed(cs) == [i \in 1..Len(cs) |-> [cs[i] EXCEPT !.pushed = TRUE]]

\* the ways commitAndPush's push part can go
PushResults == {"ok", "upstream_ok", "upstream_fail", "fail"}
PushSucceeded(r) == r \in {"ok", "upstream_ok"}

\* HistoryManager.saveGeneration(repo, commit, accepted, ...): a new record
\* (writing the generation file is taken to succeed)
SaveGeneration(rs, p, accepted, requestData) ==
    Append(rs, [p |-> p, accepted |-> accepted, request |-> requestData])

\* faulty variant: the record is left as it was saved
UpdateGenerationStatusNever(rs, file, accepted) == rs
\* HistoryManager.updateGenerationStatus(file, accepted)
UpdateGenerationStatus(rs, file, accepted) ==
    IF file \in 1..Len(rs) THEN [rs EXCEPT ![file].accepted = accepted] ELSE rs

(***************************************************************************)
(* Grouped-commit orchestrator: processGroupedCommit from the point where  *)
(* generateGroupedCommits has returned a non-empty list.                   *)
(***************************************************************************)
\* `files` lists a grouping response may carry: none, one file, two files;
\* two proposals may carry the same list
ProposalFiles == {<<>>, <<"a">>, <<"b", "c">>}

\* the repository when the run starts: there are changes (getGitDiff returned
\* data), "a" may be unchanged, and "b" may already be staged
InitialPending == {{"a", "b", "c"}, {"b", "c"}}
InitialStaged == {{}, {"b"}}

ProposalLists == UNION {[1..n -> ProposalFiles] : n \in 1..MaxProposals}

GroupedInit ==
    /\ pc = "g_decide"
    /\ pending \in InitialPending
    /\ staged \in InitialStaged
    /\ commits = <<>>
    /\ gitOps = <<>>
    /\ proposals \in ProposalLists
    /\ pass = 1
    /\ idx = 1
    /\ skippedCommits = <<>>
    /\ committedCount = 0
    /\ flags \in [auto : BOOLEAN, files : {FALSE}, only : {FALSE}]
    /\ cur = NoCommitData
    /\ decisions = <<>>
    /\ outcomes = <<>>
    /\ records = <<>>
    /\ exitCode = -1
    /\ StageIdle /\ GenIdle /\ SingleIdle /\ ContextIdle

\* the proposal the loop is at
CurrentProposal == IF pass = 1 THEN idx ELSE skippedCommits[idx]

\* the choices confirmGroupedCommit offers
GroupedActions == {"accept", "skip", "cancel"}

\* end of one loop iteration: next element, next loop, or end of the run
NextIteration(sk) ==
    IF pass = 1 /\ idx < Len(proposals)
    THEN /\ pc' = "g_decide" /\ pass' = 1 /\ idx' = idx + 1 /\ exitCode' = exitCode
    ELSE IF pass = 1 /\ Len(sk) > 0
    THEN /\ pc' = "g_decide" /\ pass' = 2 /\ idx' = 1 /\ exitCode' = exitCode
    ELSE IF pass = 2 /\ idx < Len(sk)
    THEN /\ pc' = "g_decide" /\ pass' = 2 /\ idx' = idx + 1 /\ exitCode' = exitCode
    ELSE /\ pc' = "g_done" /\ pass' = pass /\ idx' = idx /\ exitCode' = 0

\* pass 2: any answer other than accept takes the else branch ("Skipping commit.")
SecondPassCancels(action) == FALSE

\* pass 1: the cancel branch
FirstPassCancels(action) == action = "cancel"

\* faulty variant: an accepted proposal is queued for review as well
SkippedAfterAlways(sk, p, action) == Append(sk, p)
\* faulty variant: a skipped proposal is dropped
SkippedAfterNever(sk, p, action) == sk
\* faulty variant: a skipped proposal goes to the front of the review list
SkippedAfterFront(sk, p, action) == IF action = "skip" THEN <<p>> \o sk ELSE sk
\* pass 1: the skip branch
SkippedAfter(sk, p, action) == IF action = "skip" THEN Append(sk, p) ELSE sk

\* faulty variant: the auto flag is not consulted
AutoModeNever(fl) == FALSE
\* this.context.hasFlag('auto'): the decision is Accept without asking
AutoMode(fl) == fl.auto

\* one decision: auto mode or confirmGroupedCommit, then the branch taken
GDecide ==
    /\ pc = "g_decide"
    /\ \E action \in (IF AutoMode(flags) THEN {"accept"} ELSE GroupedActions) :
         LET p == CurrentProposal IN
           /\ decisions' = Append(decisions,
                  [p |-> p, pass |-> pass, action |-> action,
                   asked |-> ~AutoMode(flags)])
           /\ IF action = "accept"
              THEN /\ records' = UpdateGenerationStatus(
                                   SaveGeneration(records, p, FALSE, FALSE), Len(records) + 1, TRUE)
                   /\ cur' = [p |-> p, files |-> proposals[p], selectedFiles |-> <<>>,
                              interactiveStaged |-> FALSE, filesSelected |-> FALSE,
                              gen |-> Len(records) + 1]
                   /\ pc' = "g_stage"
                   /\ gitOps' = <<>>
                   /\ skippedCommits' =
                        IF pass = 1 THEN SkippedAfter(skippedCommits, p, action)
                        ELSE skippedCommits
                   /\ UNCHANGED <<pass, idx, exitCode>>
              ELSE /\ UNCHANGED <<records, cur, gitOps>>
                   /\ IF (pass = 1 /\ FirstPassCancels(action))
                         \/ (pass = 2 /\ SecondPassCancels(action))
                      THEN /\ pc' = "g_cancelled"
                           /\ exitCode' = 0
                           /\ UNCHANGED <<pass, idx, skippedCommits>>
                      ELSE /\ skippedCommits' =
                                IF pass = 1 THEN SkippedAfter(skippedCommits, p, action)
                                ELSE skippedCommits
                           /\ NextIteration(skippedCommits')
    /\ UNCHANGED <<pending, staged, commits, proposals, committedCount, flags, outcomes>>
    /\ UNCHANGED <<stageVars, genVars, singleVars, contextVars>>

\* faulty variant: a failed apply ends the run
GApplyFailedAborts ==
    /\ gitOps' = <<>>
    /\ outcomes' = Append(outcomes, [p |-> cur.p, success |-> FALSE])
    /\ committedCount' = committedCount
    /\ pc' = "g_done" /\ pass' = pass /\ idx' = idx /\ exitCode' = 1

\* faulty variant: the loop goes on while the apply is still under way
GApplyFailedUnfinished ==
    /\ gitOps' = gitOps
    /\ outcomes' = outcomes
    /\ committedCount' = committedCount
    /\ NextIteration(skippedCommits)

\* the catch around executeCommit: log and go on with the next proposal
GApplyFailed ==
    /\ gitOps' = <<>>
    /\ outcomes' = Append(outcomes, [p |-> cur.p, success |-> FALSE])
    /\ committedCount' = committedCount
    /\ NextIteration(skippedCommits)

GExecStage ==
    /\ pc = "g_stage"
    /\ \E failAt \in 0..(Len(cur.files) + 1) :
         LET r == ExecuteStaging(cur, staged, pending, failAt) IN
           /\ staged' = r.staged
           /\ IF r.ok
              THEN /\ pc' = "g_commit"
                   /\ gitOps' = r.ops
                   /\ UNCHANGED <<pass, idx, exitCode, outcomes, committedCount>>
              ELSE GApplyFailed
    /\ UNCHANGED <<pending, commits, proposals, skippedCommits>>
    /\ UNCHANGED <<flags, cur, decisions, records>>
    /\ UNCHANGED <<stageVars, genVars, singleVars, contextVars>>

GExecCommit ==
    /\ pc = "g_commit"
    /\ \E ok \in BOOLEAN :
         IF ok
         THEN /\ gitOps' = Append(gitOps, <<"commit", staged>>)
              /\ commits' = CommitCreated(commits, cur.p, staged)
              /\ pending' = pending \ staged
              /\ staged' = {}
              /\ pc' = "g_push"
              /\ UNCHANGED <<pass, idx, exitCode, outcomes, committedCount>>
         ELSE /\ UNCHANGED <<commits, pending, staged>>
              /\ GApplyFailed
    /\ UNCHANGED <<proposals, skippedCommits>>
    /\ UNCHANGED <<flags, cur, decisions, records>>
    /\ UNCHANGED <<stageVars, genVars, singleVars, contextVars>>

GExecPush ==
    /\ pc = "g_push"
    /\ \E r \in PushResults :
         /\ IF PushSucceeded(r)
            THEN /\ commits' = MarkPushed(commits)
                 /\ gitOps' = <<>>
                 /\ outcomes' = Append(outcomes, [p |-> cur.p, success |-> TRUE])
                 /\ committedCount' = committedCount + 1
                 /\ NextIteration(skippedCommits)
            ELSE /\ commits' = commits
                 /\ GApplyFailed
    /\ UNCHANGED <<pending, staged, proposals, skippedCommits>>
    /\ UNCHANGED <<flags, cur, decisions, records>>
    /\ UNCHANGED <<stageVars, genVars, singleVars, contextVars>>

GroupedNext == GDecide \/ GExecStage \/ GExecCommit \/ GExecPush

SpecGrouped == GroupedInit /\ [][GroupedNext]_vars

(***************************************************************************)
(* Completion-retry engine: AIManager.generateCommitMessage                *)
(***************************************************************************)
maxRetries == 3

\* what one completion call can yield: the request throws, the body has no
\* choices[0].message, or a text that parseCommitMessage is run on
\*   json_summary   JSON object with a non-blank summary
\*   json_blank     JSON object whose summary is missing or blank
\*   prose          not JSON, with a line longer than 10 characters
\*   fragments      not JSON, only blank, short or punctuation lines
Responses ==
    {[kind |-> "network_error", selectedFiles |-> <<>>],
     [kind |-> "no_choices", selectedFiles |-> <<>>],
     [kind |-> "json_summary", selectedFiles |-> <<>>],
     [kind |-> "json_summary", selectedFiles |-> <<"a">>],
     [kind |-> "json_blank", selectedFiles |-> <<"a">>],
     [kind |-> "prose", selectedFiles |-> <<>>],
     [kind |-> "fragments", selectedFiles |-> <<>>]}

NoResult == [summary |-> "", selectedFiles |-> <<>>, parseSuccess |-> FALSE]

\* AIManager.parseCommitMessage: strict parse, then the line heuristic, then null
ParseCommitMessage(r) ==
    IF r.kind = "json_summary"
    THEN [summary |-> "summary", selectedFiles |-> r.selectedFiles, parseSuccess |-> TRUE]
    ELSE IF r.kind = "prose"
    THEN [summary |-> "first line", selectedFiles |-> <<>>, parseSuccess |-> FALSE]
    ELSE NoResult

\* the attempt returns: the call answered and the parse has a summary
AttemptSucceeds(r) ==
    /\ r.kind \notin {"network_error", "no_choices"}
    /\ ParseCommitMessage(r).summary # ""

\* message of the error the catch block receives when the attempt fails
AttemptError(r) ==
    IF r.kind = "network_error" THEN "Request failed"
    ELSE IF r.kind = "no_choices" THEN "Cannot read properties of undefined"
    ELSE "Generated commit message could not be parsed or was empty"

\* faulty variant: the cause is not carried over
FatalErrorBare(error) == [attempts |-> maxRetries, last |-> "none"]
\* the error thrown after the last attempt:
\* "Failed to generate commit message after <maxRetries> attempts. Last error: <message>"
FatalError(error) == [attempts |-> maxRetries, last |-> error]

\* faulty variant: gives up one attempt early
LastAttemptEarly(a) == a = maxRetries - 1
\* the catch block's test for giving up
LastAttempt(a) == a = maxRetries

\* faulty variant: the same delay before every retry
BackoffConstant(a) == 2
\* Math.pow(2, attempt) seconds
Backoff(a) == 2 ^ a

\* entry of generateCommitMessage
GenStart ==
    /\ attempt' = 1 /\ calls' = 0 /\ sleeps' = <<>>
    /\ genLog' = <<>> /\ genResult' = "none" /\ genError' = NoError

GenInit ==
    /\ pc = "gen_call"
    /\ attempt = 1 /\ calls = 0 /\ totalCalls = 0 /\ sleeps = <<>>
    /\ genLog = <<>> /\ genResult = "none" /\ genError = NoError
    /\ pending = {} /\ staged = {} /\ commits = <<>> /\ gitOps = <<>>
    /\ StageIdle /\ GroupIdle /\ RunIdle /\ SingleIdle /\ ContextIdle

\* one loop iteration up to the return, the final throw, or the backoff sleep
GenAttempt ==
    /\ pc = "gen_call"
    /\ attempt <= maxRetries
    /\ \E r \in Responses :
         /\ calls' = calls + 1
         /\ totalCalls' = totalCalls + 1
         /\ genLog' = Append(genLog, r)
         /\ IF AttemptSucceeds(r)
            THEN /\ genResult' = "returned" /\ pc' = "gen_done"
                 /\ genError' = genError
            ELSE IF LastAttempt(attempt)
            THEN /\ genResult' = "threw" /\ pc' = "gen_done"
                 /\ genError' = FatalError(AttemptError(r))
            ELSE /\ genResult' = genResult /\ pc' = "gen_sleep"
                 /\ genError' = genError
    /\ UNCHANGED <<attempt, sleeps>>
    /\ UNCHANGED <<gitVars, stageVars, groupVars, runVars, singleVars, contextVars>>

\* the backoff delay has elapsed: next iteration
GenBackoff ==
    /\ pc = "gen_sleep"
    /\ sleeps' = Append(sleeps, Backoff(attempt))
    /\ attempt' = attempt + 1
    /\ pc' = "gen_call"
    /\ UNCHANGED <<calls, totalCalls, genLog, genResult, genError>>
    /\ UNCHANGED <<gitVars, stageVars, groupVars, runVars, singleVars, contextVars>>

GenNext == GenAttempt \/ GenBackoff

SpecGen == GenInit /\ [][GenNext]_vars

(***************************************************************************)
(* Single-commit flow: processCommit from its generate/confirm loop on     *)
(* (in --files mode the user's selection has been staged before the loop). *)
(***************************************************************************)
maxAttempts == 3

\* the choices confirmCommit offers
SingleActions == {"accept", "regenerate", "cancel"}

\* what the user may have selected in --files mode
FileSelections == {<<"a">>, <<"b", "c">>}

SingleInit ==
    /\ pc = "gen_call"
    /\ flags \in [auto : BOOLEAN, files : BOOLEAN, only : BOOLEAN]
    /\ pending \in InitialPending
    /\ selectedFiles \in
          (IF flags.files THEN {f \in FileSelections : Range(f) \subseteq pending}
           ELSE {<<>>})
    /\ staged \in (IF flags.files THEN {Range(selectedFiles)} ELSE InitialStaged)
    /\ stageResult = (IF flags.files THEN "returned" ELSE "none")
    /\ stagedBefore = {}
    /\ commits = <<>>
    /\ gitOps = <<>>
    /\ cur = NoCommitData
    /\ decisions = <<>>
    /\ outcomes = <<>>
    /\ records = <<>>
    /\ exitCode = -1
    /\ attempts = 1
    /\ failedApply = FALSE
    /\ attempt = 1 /\ calls = 0 /\ totalCalls = 0 /\ sleeps = <<>>
    /\ genLog = <<>> /\ genResult = "none" /\ genError = NoError
    /\ GroupIdle /\ ContextIdle

\* generateCommitMessage has returned or thrown: its locals are gone
GenGone ==
    /\ attempt' = 0 /\ calls' = 0 /\ sleeps' = <<>>
    /\ genLog' = <<>> /\ genResult' = "none" /\ genError' = NoError

\* faulty variant: the while test lets one more iteration through
SNextAttemptOneMore ==
    IF attempts < maxAttempts + 1
    THEN /\ attempts' = attempts + 1
         /\ GenStart
         /\ pc' = "gen_call"
         /\ exitCode' = exitCode
    ELSE /\ attempts' = attempts
         /\ GenGone
         /\ pc' = "s_done"
         /\ exitCode' = 0

\* the while test, attempts++ and the next generateCommitMessage call
SNextAttempt ==
    IF attempts < maxAttempts
    THEN /\ attempts' = attempts + 1
         /\ GenStart
         /\ pc' = "gen_call"
         /\ exitCode' = exitCode
    ELSE /\ attempts' = attempts
         /\ GenGone
         /\ pc' = "s_done"
         /\ exitCode' = 0

\* the catch inside the while loop: rethrow on the last attempt, else retry
SCatch ==
    IF attempts >= maxAttempts
    THEN /\ attempts' = attempts
         /\ GenGone
         /\ pc' = "s_failed"
         /\ exitCode' = 1
    ELSE SNextAttempt

\* generateCommitMessage returned: the result is copied into commitData, the
\* generation is saved and the staging info of the mode is attached
SGenerated ==
    /\ pc = "gen_done"
    /\ genResult = "returned"
    /\ LET cd == ParseCommitMessage(genLog[Len(genLog)])
           file == Len(records) + 1
       IN /\ records' = SaveGeneration(records, attempts, FALSE, TRUE)
          /\ cur' = [p |-> attempts, files |-> <<>>,
                     selectedFiles |-> IF flags.files THEN selectedFiles
                                       ELSE cd.selectedFiles,
                     interactiveStaged |-> FALSE, filesSelected |-> flags.files,
                     gen |-> file]
    /\ pc' = "s_confirm"
    /\ UNCHANGED <<gitVars, genVars, flags, decisions, outcomes, exitCode, singleVars>>
    /\ UNCHANGED <<stageVars, groupVars, contextVars>>

\* the decision (auto mode or confirmCommit) and the branch taken
SConfirm ==
    /\ pc = "s_confirm"
    /\ \E action \in (IF flags.auto THEN {"accept"} ELSE SingleActions) :
         /\ decisions' = Append(decisions,
                [p |-> attempts, pass |-> 0, action |-> action, asked |-> ~flags.auto])
         /\ IF action = "accept"
            THEN /\ records' = UpdateGenerationStatus(records, cur.gen, TRUE)
                 /\ pc' = "s_stage"
                 /\ GenGone
                 /\ UNCHANGED <<attempts, exitCode>>
            ELSE IF action = "regenerate"
            THEN /\ records' = records
                 /\ SNextAttempt
            ELSE /\ records' = UpdateGenerationStatus(records, cur.gen, FALSE)
                 /\ pc' = "s_cancelled"
                 /\ exitCode' = 0
                 /\ GenGone
                 /\ UNCHANGED attempts
    /\ gitOps' = <<>>
    /\ UNCHANGED <<pending, staged, commits, totalCalls, flags, cur, outcomes, failedApply>>
    /\ UNCHANGED <<stageVars, groupVars, contextVars>>

\* generateCommitMessage threw after its last attempt
SGenFailed ==
    /\ pc = "gen_done"
    /\ genResult = "threw"
    /\ SCatch
    /\ UNCHANGED <<totalCalls, failedApply>>
    /\ UNCHANGED <<gitVars, stageVars, groupVars, contextVars>>
    /\ UNCHANGED <<flags, cur, decisions, outcomes, records>>

\* executeCommit threw: same catch as a failed generation
SApplyFailed ==
    /\ failedApply' = TRUE
    /\ gitOps' = <<>>
    /\ outcomes' = Append(outcomes, [p |-> cur.p, success |-> FALSE])
    /\ SCatch

SExecStage ==
    /\ pc = "s_stage"
    /\ \E failAt \in 0..(Len(cur.selectedFiles) + 1) :
         LET r == ExecuteStaging(cur, staged, pending, failAt) IN
           /\ staged' = r.staged
           /\ IF r.ok
              THEN /\ pc' = "s_commit"
                   /\ gitOps' = r.ops
                   /\ UNCHANGED <<attempts, exitCode, outcomes, failedApply>>
                   /\ UNCHANGED <<attempt, calls, sleeps, genLog, genResult, genError>>
              ELSE SApplyFailed
    /\ UNCHANGED <<pending, commits, totalCalls>>
    /\ UNCHANGED <<flags, cur, decisions, records>>
    /\ UNCHANGED <<stageVars, groupVars, contextVars>>

SExecCommit ==
    /\ pc = "s_commit"
    /\ \E ok \in BOOLEAN :
         IF ok
         THEN /\ gitOps' = Append(gitOps, <<"commit", staged>>)
              /\ commits' = CommitCreated(commits, cur.p, staged)
              /\ pending' = pending \ staged
              /\ staged' = {}
              /\ pc' = "s_push"
              /\ UNCHANGED <<attempts, exitCode, outcomes, failedApply>>
              /\ UNCHANGED <<attempt, calls, sleeps, genLog, genResult, genError>>
         ELSE /\ UNCHANGED <<commits, pending, staged>>
              /\ SApplyFailed
    /\ UNCHANGED totalCalls
    /\ UNCHANGED <<flags, cur, decisions, records>>
    /\ UNCHANGED <<stageVars, groupVars, contextVars>>

SExecPush ==
    /\ pc = "s_push"
    /\ \E r \in PushResults :
         IF PushSucceeded(r)
         THEN /\ commits' = MarkPushed(commits)
              /\ gitOps' = <<>>
              /\ outcomes' = Append(outcomes, [p |-> cur.p, success |-> TRUE])
              /\ pc' = "s_done"
              /\ exitCode' = 0
              /\ UNCHANGED <<attempts, failedApply>>
              /\ UNCHANGED <<attempt, calls, sleeps, genLog, genResult, genError>>
         ELSE /\ commits' = commits
              /\ SApplyFailed
    /\ UNCHANGED <<pending, staged, totalCalls>>
    /\ UNCHANGED <<flags, cur, decisions, records>>
    /\ UNCHANGED <<stageVars, groupVars, contextVars>>

SingleNext ==
    \/ GenAttempt \/ GenBackoff
    \/ SGenerated \/ SConfirm \/ SGenFailed
    \/ SExecStage \/ SExecCommit \/ SExecPush

SpecSingle == SingleInit /\ [][SingleNext]_vars

(***************************************************************************)
(* Grouping call: AIManager.generateGroupedCommits and the test            *)
(* processGroupedCommit makes on what it returns.                          *)
(***************************************************************************)
\* what one grouping call can yield: the request throws, the body has no
\* choices[0].message, a text that is not JSON, JSON that is not an array
\* (an object), or a JSON array of proposals (given by their `files` lists)
GroupedResponses ==
    {[kind |-> k, commits |-> <<>>] :
        k \in {"network_error", "no_choices", "invalid_json", "object"}}
    \cup {[kind |-> "array", commits |-> c] : c \in ProposalLists \cup {<<>>}}

NoCommits == [isNull |-> TRUE, commits |-> <<>>]

\* AIManager.parseGroupedCommits: the non-empty array, or null
ParseGroupedCommits(r) ==
    IF r.kind = "array" /\ Len(r.commits) > 0
    THEN [isNull |-> FALSE, commits |-> r.commits]
    ELSE NoCommits

\* message of the error the catch block receives when the attempt fails
GroupedAttemptError(r) ==
    IF r.kind = "network_error" THEN "Request failed"
    ELSE IF r.kind = "no_choices" THEN "Cannot read properties of undefined"
    ELSE "Generated grouped commits could not be parsed or were empty"

\* one loop iteration up to the return, the final throw, or the backoff sleep
GroupedAttempt ==
    /\ pc = "gen_call"
    /\ attempt <= maxRetries
    /\ \E r \in GroupedResponses :
         LET answered == r.kind \notin {"network_error", "no_choices"}
             parsed == ParseGroupedCommits(r)
         IN /\ calls' = calls + 1
            /\ totalCalls' = totalCalls + 1
            /\ genLog' = Append(genLog, r)
            /\ IF answered /\ ~parsed.isNull /\ Len(parsed.commits) > 0
               THEN /\ genResult' = "returned" /\ pc' = "gen_done"
                    /\ genError' = genError
                    /\ proposals' = parsed.commits
               ELSE IF LastAttempt(attempt)
               THEN /\ genResult' = "threw" /\ pc' = "gen_done"
                    /\ genError' = FatalError(GroupedAttemptError(r))
                    /\ proposals' = proposals
               ELSE /\ genResult' = genResult /\ pc' = "gen_sleep"
                    /\ genError' = genError
                    /\ proposals' = proposals
    /\ UNCHANGED <<attempt, sleeps, pass, idx, skippedCommits, committedCount>>
    /\ UNCHANGED <<gitVars, stageVars, runVars, singleVars, contextVars>>

\* processGroupedCommit after the call: an empty or missing list ends the run
\* with exit code 0, a thrown error with exit code 1, else the loop starts
GroupedReceived ==
    /\ pc = "gen_done"
    /\ IF genResult = "threw"
       THEN pc' = "g_failed" /\ exitCode' = 1 /\ UNCHANGED <<pass, idx>>
       ELSE IF Len(proposals) = 0
       THEN pc' = "g_nothing" /\ exitCode' = 0 /\ UNCHANGED <<pass, idx>>
       ELSE pc' = "g_decide" /\ exitCode' = exitCode /\ pass' = 1 /\ idx' = 1
    /\ UNCHANGED <<proposals, skippedCommits, committedCount>>
    /\ UNCHANGED <<flags, cur, decisions, outcomes, records>>
    /\ UNCHANGED <<gitVars, stageVars, genVars, singleVars, contextVars>>

GroupGenNext == GroupedAttempt \/ GenBackoff \/ GroupedReceived

SpecGroupGen == GenInit /\ [][GroupGenNext]_vars

(***************************************************************************)
(* Diff windowing: GitManager.extractChangedLines and getContextBlocks, as *)
(* getContextualContent calls them on the diff of one file.                *)
(* A diff text is a sequence of lines; a line is a hunk header             *)
(* `@@ -a[,b] +c[,d] @@` (newStart = c, hasCount = whether `,d` is there,   *)
(* newCount = d) or any other line, which the header pattern never matches.*)
(***************************************************************************)
MaxDiffLines == 2    \* longest diff text, in lines

HunkStarts == {0, 1, 4, 10, 12, 30}
HunkCounts == {0, 2, 4}
FileLengths == {1, 8, 20}
Radii == {1, 3}

HunkHeaders ==
    {[kind |-> "hunk", newStart |-> c, hasCount |-> TRUE, newCount |-> d] :
        c \in HunkStarts, d \in HunkCounts}
    \cup {[kind |-> "hunk", newStart |-> c, hasCount |-> FALSE, newCount |-> 0] :
        c \in HunkStarts}
OtherLine == [kind |-> "other", newStart |-> 0, hasCount |-> FALSE, newCount |-> 0]
DiffLines == HunkHeaders \cup {OtherLine}
DiffTexts == UNION {[1..n -> DiffLines] : n \in 0..MaxDiffLines}

Max(a, b) == IF a >= b THEN a ELSE b
Min(a, b) == IF a <= b THEN a ELSE b

\* parseInt(hunkMatch[4]) || 1
NewCount(h) ==
    IF ~h.hasCount THEN 1
    ELSE IF h.newCount = 0 THEN 1
    ELSE h.newCount

\* the inner for loop: newStart, newStart + 1, ..., newStart + newCount - 1
HunkLines(h) == [i \in 1..NewCount(h) |-> h.newStart + (i - 1)]

\* the scan over the lines of the diff, pushing the lines of every header
RECURSIVE PushChangedLines(_, _, _)
PushChangedLines(lines, i, acc) ==
    IF i > Len(lines) THEN acc
    ELSE PushChangedLines(lines, i + 1,
             IF lines[i].kind = "hunk" THEN acc \o HunkLines(lines[i]) ELSE acc)

\* [...new Set(xs)]: first occurrences, in insertion order
RECURSIVE Unique(_, _, _)
Unique(xs, i, acc) ==
    IF i > Len(xs) THEN acc
    ELSE Unique(xs, i + 1,
             IF \E k \in 1..Len(acc) : acc[k] = xs[i] THEN acc ELSE Append(acc, xs[i]))

\* x put in its place in an ascending list
InsertAscending(x, sorted) ==
    LET k == Cardinality({j \in 1..Len(sorted) : sorted[j] <= x})
    IN SubSeq(sorted, 1, k) \o <<x>> \o SubSeq(sorted, k + 1, Len(sorted))

\* .sort((a, b) => a - b)
RECURSIVE SortAscending(_)
SortAscending(xs) ==
    IF Len(xs) = 0 THEN <<>>
    ELSE InsertAscending(xs[Len(xs)], SortAscending(SubSeq(xs, 1, Len(xs) - 1)))

\* faulty variant: the lines are returned as pushed
ExtractChangedLinesAsPushed(diff) == PushChangedLines(diff, 1, <<>>)
ExtractChangedLines(diff) ==
    SortAscending(Unique(PushChangedLines(diff, 1, <<>>), 1, <<>>))

\* faulty variant: context after the changed line only
WindowForwardOnly(lineNum, r, total) ==
    [startLine |-> lineNum, endLine |-> Min(total, lineNum + r)]
\* the window of one changed line, clamped to the file
Window(lineNum, r, total) ==
    [startLine |-> Max(1, lineNum - r), endLine |-> Min(total, lineNum + r)]

\* faulty variant: touching windows are not merged
MergeableOverlapOnly(block, w) == w.startLine <= block.endLine
\* the window overlaps or touches the current block
Mergeable(block, w) == w.startLine <= block.endLine + 1

\* faulty variant: the current block is left as it was
ExtendedNotAtAll(block, w) == block
\* the current block extended by the window
Extended(block, w) == [block EXCEPT !.endLine = Max(block.endLine, w.endLine)]

\* faulty variant: the last block is never pushed
FinishBlocksDropLast(blks, current) == blks
\* after the loop: "Add the last block" (current is <<>> for null)
FinishBlocks(blks, current) == blks \o current

\* the merge loop, on the windows in the order of the changed lines
RECURSIVE MergeLoop(_, _, _, _)
MergeLoop(ws, i, blks, current) ==
    IF i > Len(ws) THEN FinishBlocks(blks, current)
    ELSE IF Len(current) > 0 /\ Mergeable(current[1], ws[i])
    THEN MergeLoop(ws, i + 1, blks, <<Extended(current[1], ws[i])>>)
    ELSE MergeLoop(ws, i + 1, blks \o current, <<ws[i]>>)

MergeWindows(ws) == MergeLoop(ws, 1, <<>>, <<>>)

GetContextBlocks(changed, r, total) ==
    MergeWindows([i \in 1..Len(changed) |-> Window(changed[i], r, total)])

GitIdle ==
    /\ pending = {} /\ staged = {} /\ commits = <<>> /\ gitOps = <<>>

WindowInit ==
    /\ pc = "x_extract"
    /\ diffOutput \in DiffTexts
    /\ radius \in Radii
    /\ totalLines \in FileLengths
    /\ changedLines = <<>>
    /\ blocks = <<>>
    /\ GitIdle /\ StageIdle /\ GroupIdle /\ RunIdle /\ GenIdle /\ SingleIdle
    /\ ExcerptIdle /\ MoreIdle

\* getContextualContent: the changed lines of the diff; none gives the sentinel
ExtractStep ==
    /\ pc = "x_extract"
    /\ changedLines' = ExtractChangedLines(diffOutput)
    /\ pc' = IF Len(changedLines') = 0 THEN "x_sentinel" ELSE "x_blocks"
    /\ UNCHANGED <<diffOutput, radius, totalLines, blocks>>
    /\ UNCHANGED <<coreVars, excerptVars, moreVars>>

\* getContextualContent: the context blocks around the changed lines
BlocksStep ==
    /\ pc = "x_blocks"
    /\ blocks' = GetContextBlocks(changedLines, radius, totalLines)
    /\ pc' = "x_done"
    /\ UNCHANGED <<diffOutput, radius, totalLines, changedLines>>
    /\ UNCHANGED <<coreVars, excerptVars, moreVars>>

WindowNext == ExtractStep \/ BlocksStep

SpecWindow == WindowInit /\ [][WindowNext]_vars

(***************************************************************************)
(* Excerpts for the prompt: GitManager.getFileContentsWithRadius on the    *)
(* files of the git status, one loop iteration per step.  What the file    *)
(* system and git answer for a file is chosen at the time of the call.     *)
(***************************************************************************)
MaxStatusFiles == 2    \* most files in the status handed to the function

sizeLimit == 102400    \* 100 * 1024 bytes
fullCap == 2000        \* characters kept of a new file
rawCap == 1000         \* characters kept after a diff parsing error

\* git status reports each path once, in path order
StatusPaths == <<"a", "b", "c">>
\* index / working_dir codes: untracked, added, modified in the index,
\* modified in the working tree
FileStatuses ==
    {[index |-> "?", working_dir |-> "?"], [index |-> "A", working_dir |-> " "],
     [index |-> "M", working_dir |-> " "], [index |-> " ", working_dir |-> "M"]}
StatusLists ==
    UNION {{[i \in 1..n |-> [path |-> StatusPaths[i], index |-> st[i].index,
                              working_dir |-> st[i].working_dir]] :
               st \in [1..n -> FileStatuses]} : n \in 0..MaxStatusFiles}

FileSizes == {0, sizeLimit, sizeLimit + 1}
ContentLengths == {rawCap, rawCap + 1, fullCap, fullCap + 1}
\* answers of fs.statSync, fs.readFileSync and git.diff
StatResults ==
    {[threw |-> TRUE, size |-> 0]} \cup {[threw |-> FALSE, size |-> n] : n \in FileSizes}
ReadResults ==
    {[threw |-> TRUE, length |-> 0]}
    \cup {[threw |-> FALSE, length |-> n] : n \in ContentLengths}
DiffResults == {"hunks", "nohunks", "throws"}

\* what the body of the try block comes to for one file: the kind of text
\* assigned to contents[filepath], or an exception; read = readFileSync was called
Entry(kind, read) == [threw |-> FALSE, kind |-> kind, read |-> read]
Thrown(read) == [threw |-> TRUE, kind |-> "none", read |-> read]

\* file.working_dir === '?' || file.index === 'A'
IsNewFile(f) == f.working_dir = "?" \/ f.index = "A"

\* new file: the whole content, cut at 2000 characters
NewFileContent(rd) ==
    IF rd.threw THEN Thrown(TRUE)
    ELSE IF rd.length > fullCap THEN Entry("full_truncated", TRUE)
    ELSE Entry("full", TRUE)

\* getContextualContent's catch block: the raw content, cut at 1000 characters;
\* a failure of this read leaves the function
FallbackContent(rr) ==
    IF rr.threw THEN Thrown(TRUE)
    ELSE IF rr.length > rawCap THEN Entry("raw_truncated", TRUE)
    ELSE Entry("raw", TRUE)

\* getContextualContent: diff, changed lines, read, blocks
ContextualContent(d, rd, rr) ==
    IF d = "nohunks" THEN Entry("no_lines", FALSE)
    ELSE IF d = "hunks" /\ ~rd.threw THEN Entry("windowed", TRUE)
    ELSE FallbackContent(rr)

\* what the file system and git answer for one file: existsSync, statSync,
\* the extension test of isBinaryFile, readFileSync in the try block, git.diff
\* with extractChangedLines, readFileSync in getContextualContent's catch block
Answers ==
    [exists : BOOLEAN, stat : StatResults, binary : BOOLEAN,
     read : ReadResults, diff : DiffResults, reread : ReadResults]

\* faulty variant: the binary rule is tried before the size rule
FileExcerptBinaryFirst(f, a) ==
    IF ~a.exists THEN Entry("deleted", FALSE)
    ELSE IF a.stat.threw THEN Thrown(FALSE)
    ELSE IF a.binary THEN Entry("binary", FALSE)
    ELSE IF a.stat.size > sizeLimit THEN Entry("too_large", FALSE)
    ELSE IF IsNewFile(f) THEN NewFileContent(a.read)
    ELSE ContextualContent(a.diff, a.read, a.reread)
\* the try block of the loop body for file f, the rules in the order of the code
FileExcerpt(f, a) ==
    IF ~a.exists THEN Entry("deleted", FALSE)
    ELSE IF a.stat.threw THEN Thrown(FALSE)
    ELSE IF a.stat.size > sizeLimit THEN Entry("too_large", FALSE)
    ELSE IF a.binary THEN Entry("binary", FALSE)
    ELSE IF IsNewFile(f) THEN NewFileContent(a.read)
    ELSE ContextualContent(a.diff, a.read, a.reread)

\* everything the try block can come to, by status codes
OutcomesByStatus ==
    [st \in FileStatuses |-> {FileExcerpt(st, a) : a \in Answers}]

\* everything the try block can come to for file f
FileOutcomes(f) ==
    OutcomesByStatus[[index |-> f.index, working_dir |-> f.working_dir]]

\* faulty variant: no catch around the loop body
OuterCatchRethrows(r) == r
\* the catch of the loop body: an error note instead of the exception
OuterCatch(r) == IF r.threw THEN Entry("error", r.read) ELSE r

\* contents[path] = ...
PutEntry(cs, path, r) ==
    {e \in cs : e.path # path} \cup {[path |-> path, kind |-> r.kind, read |-> r.read]}

ExcerptInit ==
    /\ pc = "e_loop"
    /\ statusFiles \in StatusLists
    /\ fileIdx = 1
    /\ contents = {}
    /\ GitIdle /\ StageIdle /\ GroupIdle /\ RunIdle /\ GenIdle /\ SingleIdle
    /\ DiffIdle /\ MoreIdle

\* one iteration of the for loop
ExcerptFile ==
    /\ pc = "e_loop"
    /\ fileIdx <= Len(statusFiles)
    /\ \E r \in FileOutcomes(statusFiles[fileIdx]) :
         LET o == OuterCatch(r) IN
           IF o.threw
           THEN /\ pc' = "e_raised"
                /\ UNCHANGED <<fileIdx, contents>>
           ELSE /\ contents' = PutEntry(contents, statusFiles[fileIdx].path, o)
                /\ fileIdx' = fileIdx + 1
                /\ pc' = "e_loop"
    /\ UNCHANGED statusFiles
    /\ UNCHANGED <<coreVars, diffVars, moreVars>>

\* the loop is over: return contents
ExcerptReturn ==
    /\ pc = "e_loop"
    /\ fileIdx > Len(statusFiles)
    /\ pc' = "e_returned"
    /\ UNCHANGED <<statusFiles, fileIdx, contents>>
    /\ UNCHANGED <<coreVars, diffVars, moreVars>>

ExcerptNext == ExcerptFile \/ ExcerptReturn

SpecExcerpt == ExcerptInit /\ [][ExcerptNext]_vars

(***************************************************************************)
(* The same loop body on a single file, the answers of the file system and *)
(* of git being fixed beforehand.                                          *)
(***************************************************************************)
OneFileInit ==
    /\ pc = "o_file"
    /\ statusFiles \in {l \in StatusLists : Len(l) = 1}
    /\ answers \in Answers
    /\ fileIdx = 1
    /\ contents = {}
    /\ requestArgs = NoArgs /\ cwd = <<>> /\ payloads = <<>>
    /\ options = NoOptions /\ flows = <<>>
    /\ aiResponse = NoText /\ commitData = NoCommit
    /\ GitIdle /\ StageIdle /\ GroupIdle /\ RunIdle /\ GenIdle /\ SingleIdle
    /\ DiffIdle

\* the loop body for the file, then the return
ExcerptOneFile ==
    /\ pc = "o_file"
    /\ LET o == OuterCatch(FileExcerpt(statusFiles[1], answers)) IN
         IF o.threw
         THEN /\ pc' = "o_raised"
              /\ UNCHANGED <<fileIdx, contents>>
         ELSE /\ contents' = PutEntry(contents, statusFiles[1].path, o)
              /\ fileIdx' = 2
              /\ pc' = "o_returned"
    /\ UNCHANGED <<statusFiles, answers>>
    /\ UNCHANGED <<coreVars, diffVars, requestVars, dispatchVars, parseVars>>

SpecOneFile == OneFileInit /\ [][ExcerptOneFile]_vars

(***************************************************************************)
(* File-selection mode: processCommit stages the selected files and then   *)
(* rebuilds the diff bundle for them (getGitDiff with selectedFiles), one  *)
(* excerpt per step.  Git is taken at file granularity: a staged file has  *)
(* no unstaged change left.                                                *)
(***************************************************************************)
StatusPathsOf(files) == {files[i].path : i \in 1..Len(files)}
InIndex(f) == f.index \in {"A", "M"}

\* the status git reports for a file once `git add` has staged it
StatusOnceStaged(f) ==
    [path |-> f.path, index |-> IF IsNewFile(f) THEN "A" ELSE "M", working_dir |-> " "]

\* git.diff(['--', filepath]): the changes of the working tree against the
\* index, so hunks only for a file with a change that is not staged
UnstagedDiff(f) == IF f.working_dir = "M" THEN "hunks" ELSE "nohunks"

\* what cli.selectFiles may return that passes the emptiness test: some of
\* the files of the status, in their order
PathsIn(files, paths) ==
    LET keep(f) == f.path \in paths
        kept == SelectSeq(files, keep)
    IN [i \in 1..Len(kept) |-> kept[i].path]
Selections(files) ==
    {PathsIn(files, paths) : paths \in (SUBSET StatusPathsOf(files)) \ {{}}}

\* status.files.filter(file => selectedFiles.includes(file.path)) after staging
SelectedStatus(files, sel) ==
    LET keep(f) == \E i \in 1..Len(sel) : sel[i] = f.path
        kept == SelectSeq(files, keep)
    IN [i \in 1..Len(kept) |-> StatusOnceStaged(kept[i])]

FilesModeInit ==
    /\ pc = "f_select"
    /\ statusFiles \in {l \in StatusLists : Len(l) >= 1}
    /\ pending = StatusPathsOf(statusFiles)
    /\ staged = {statusFiles[i].path : i \in {j \in 1..Len(statusFiles) : InIndex(statusFiles[j])}}
    /\ commits = <<>> /\ gitOps = <<>>
    /\ selectedFiles = <<>> /\ stageResult = "none" /\ stagedBefore = staged
    /\ fileIdx = 0
    /\ contents = {}
    /\ answers = NoAnswers
    /\ requestArgs = NoArgs /\ cwd = <<>> /\ payloads = <<>>
    /\ options = NoOptions /\ flows = <<>>
    /\ aiResponse = NoText /\ commitData = NoCommit
    /\ GroupIdle /\ RunIdle /\ GenIdle /\ SingleIdle /\ DiffIdle

\* selectFiles, stageSelectedFiles and the status of the rebuilt bundle
FSelectAndStage ==
    /\ pc = "f_select"
    /\ \E sel \in Selections(statusFiles) :
         \E failAt \in 0..(Len(sel) + 1) :
            LET r == StageSelectedFiles(sel, staged, pending, failAt) IN
              /\ selectedFiles' = sel
              /\ staged' = r.staged
              /\ gitOps' = r.ops
              /\ IF r.ok
                 THEN /\ stageResult' = "returned"
                      /\ statusFiles' = SelectedStatus(statusFiles, sel)
                      /\ fileIdx' = 1
                      /\ pc' = "f_excerpts"
                 ELSE /\ stageResult' = "threw"
                      /\ UNCHANGED <<statusFiles, fileIdx>>
                      /\ pc' = "f_failed"
    /\ UNCHANGED <<pending, commits, stagedBefore, contents, answers>>
    /\ UNCHANGED <<groupVars, runVars, genVars, singleVars, diffVars>>
    /\ UNCHANGED <<requestVars, dispatchVars, parseVars>>

\* getFileContentsWithRadius on the rebuilt status: the loop body for one file
FExcerpt ==
    /\ pc = "f_excerpts"
    /\ fileIdx <= Len(statusFiles)
    /\ \E a \in Answers :
         /\ a.diff \in {UnstagedDiff(statusFiles[fileIdx]), "throws"}
         /\ (a.diff # "throws" /\ ~a.read.threw) => a.reread = a.read  \* no second read
         /\ answers' = a
         /\ contents' = PutEntry(contents, statusFiles[fileIdx].path,
                                 OuterCatch(FileExcerpt(statusFiles[fileIdx], a)))
    /\ fileIdx' = fileIdx + 1
    /\ pc' = IF fileIdx' > Len(statusFiles) THEN "f_rebuilt" ELSE "f_excerpts"
    /\ UNCHANGED statusFiles
    /\ UNCHANGED <<coreVars, diffVars, requestVars, dispatchVars, parseVars>>

FilesModeNext == FSelectAndStage \/ FExcerpt

SpecFilesMode == FilesModeInit /\ [][FilesModeNext]_vars

(***************************************************************************)
(* Prompt payload: AIManager.buildStructuredRequest.  The function is      *)
(* called on the same arguments more than once; between two calls the      *)
(* ambient state of the process (its working directory) may be different.  *)
(* A directory is the sequence of its path segments.                       *)
(***************************************************************************)
MaxHistory == 4      \* longest commit history handed to the function
MaxBuilds == 2       \* calls of buildStructuredRequest in one behaviour

Directories == {<<"work", "app">>, <<"home", "app">>, <<"work", "lib">>}

\* history entries: description is a sequence of lines, <<>> when there is none
HistoryCommits ==
    {[summary |-> "add login", description |-> <<"why", "more">>, type |-> "feat",
      scope |-> "", timestamp |-> 1],
     [summary |-> "fix typo", description |-> <<>>, type |-> "", scope |-> "docs",
      timestamp |-> 2]}
Histories == UNION {[1..n -> HistoryCommits] : n \in 0..MaxHistory}

\* diffData: the status files and the length of fileContents[path] (0: empty or missing)
DiffBundles ==
    {[files |-> <<>>, lengths |-> <<>>],
     [files |-> <<[path |-> "a.js", index |-> "M", working_dir |-> " "]>>,
      lengths |-> <<0>>],
     [files |-> <<[path |-> "a.js", index |-> " ", working_dir |-> "M"],
                  [path |-> "b.png", index |-> "?", working_dir |-> "?"]>>,
      lengths |-> <<fullCap + 1, 5>>]}

Instructions == {"none", "auth"}

RequestArguments ==
    [diffData : DiffBundles, history : Histories,
     additionalContext : Instructions, selectiveContext : Instructions]

\* history.slice(-3)
LastThree(h) == IF Len(h) <= 3 THEN h ELSE SubSeq(h, Len(h) - 2, Len(h))

\* one entry of recentCommits: first line of the description, null for a
\* missing description, type or scope
RecentCommit(c) ==
    [summary |-> c.summary,
     description |-> IF Len(c.description) = 0 THEN "null" ELSE c.description[1],
     type |-> IF c.type = "" THEN "null" ELSE c.type,
     scope |-> IF c.scope = "" THEN "null" ELSE c.scope,
     timestamp |-> c.timestamp]

\* buildCommitMessageInstructions: the wording varies with the two instructions
BuildCommitMessageInstructions(selective, additional) ==
    [task |-> IF selective # "none" THEN <<"only changes related to", selective>>
              ELSE <<"the provided code changes">>,
     guidelines |-> 9 + (IF additional # "none" THEN 1 ELSE 0)
                      + (IF selective # "none" THEN 1 ELSE 0),
     asksSelectedFiles |-> selective # "none"]

\* one entry of filesData: the content is cut at 2000 characters, a missing or
\* empty content is replaced by '[Unable to read file]' (21 characters)
FileData(file, length) ==
    LET len == IF length = 0 THEN 21 ELSE length IN
      [path |-> file.path,
       index |-> file.index,
       workingDir |-> file.working_dir,
       truncated |-> len > fullCap,
       isBinary |-> file.path = "b.png",
       size |-> len]

\* getRepoName: path.basename(process.cwd())
GetRepoName(dir) == dir[Len(dir)]

BuildStructuredRequest(args, dir) ==
    [instructions |->
        BuildCommitMessageInstructions(args.selectiveContext, args.additionalContext),
     repository |-> GetRepoName(dir),
     changedFilesCount |-> Len(args.diffData.files),
     recentCommits |->
        [i \in 1..Len(LastThree(args.history)) |-> RecentCommit(LastThree(args.history)[i])],
     additionalContext |-> args.additionalContext,
     selectiveContext |-> args.selectiveContext,
     files |-> [i \in 1..Len(args.diffData.files) |->
                  FileData(args.diffData.files[i], args.diffData.lengths[i])]]

RequestInit ==
    /\ pc = "b_idle"
    /\ requestArgs \in RequestArguments
    /\ cwd \in Directories
    /\ payloads = <<>>
    /\ answers = NoAnswers
    /\ options = NoOptions /\ flows = <<>>
    /\ aiResponse = NoText /\ commitData = NoCommit
    /\ GitIdle /\ StageIdle /\ GroupIdle /\ RunIdle /\ GenIdle /\ SingleIdle
    /\ DiffIdle /\ ExcerptIdle

\* one call: nothing but the returned payload changes
BuildRequest ==
    /\ pc = "b_idle"
    /\ Len(payloads) < MaxBuilds
    /\ payloads' = Append(payloads, BuildStructuredRequest(requestArgs, cwd))
    /\ UNCHANGED <<pc, requestArgs, cwd>>
    /\ UNCHANGED <<coreVars, diffVars, excerptVars, answers, dispatchVars, parseVars>>

\* the tool is running from another directory at the next call
OtherDirectory ==
    /\ pc = "b_idle"
    /\ Len(payloads) < MaxBuilds
    /\ \E dir \in Directories \ {cwd} : cwd' = dir
    /\ UNCHANGED <<pc, requestArgs, payloads>>
    /\ UNCHANGED <<coreVars, diffVars, excerptVars, answers, dispatchVars, parseVars>>

RequestNext == BuildRequest \/ OtherDirectory

SpecRequest == RequestInit /\ [][RequestNext]_vars

(***************************************************************************)
(* Mode dispatch: SmartCommit.run from the parsed command line to the flow *)
(* it enters.  commander stores the option --pull-request under the key    *)
(* pullRequest; an option that was not given is absent (here FALSE).       *)
(***************************************************************************)
CommandLines ==
    [clean : BOOLEAN, test : BOOLEAN, grouped : BOOLEAN, pullRequest : BOOLEAN,
     interactive : BOOLEAN, patch : BOOLEAN, files : BOOLEAN]

\* CommandContext constructor: this.flags, keyed by flag name
ContextFlags(opts) ==
    [name \in {"clean", "test", "interactive", "patch", "files", "auto", "grouped",
               "pullRequest"} |->
        CASE name = "clean" -> opts.clean
          [] name = "test" -> opts.test
          [] name = "interactive" -> opts.interactive
          [] name = "patch" -> opts.patch
          [] name = "files" -> opts.files
          [] name = "auto" -> FALSE
          [] name = "grouped" -> opts.grouped
          [] name = "pullRequest" -> opts.pullRequest]

\* CommandContext.hasFlag: this.flags[flagName] === true, undefined for a key
\* that this.flags does not have
HasFlag(fl, flagName) ==
    \/ (flagName \in DOMAIN fl /\ fl[flagName] = TRUE)
    \/ (flagName = "interactive" /\ fl["patch"] = TRUE)

\* CommandContext.validate throws
ValidateFails(fl) == HasFlag(fl, "interactive") /\ HasFlag(fl, "files")

\* run(): the flows entered and the exit status, by the tests in their order
Dispatch(fl) ==
    IF HasFlag(fl, "clean") THEN [flows |-> <<"clean">>, exitCode |-> 0]
    ELSE IF HasFlag(fl, "test") THEN [flows |-> <<"test">>, exitCode |-> 0]
    ELSE IF ValidateFails(fl) THEN [flows |-> <<>>, exitCode |-> 1]
    ELSE IF HasFlag(fl, "grouped") THEN [flows |-> <<"grouped">>, exitCode |-> 0]
    ELSE IF HasFlag(fl, "pull-request") THEN [flows |-> <<"pull-request">>, exitCode |-> 0]
    ELSE [flows |-> <<"single-commit">>, exitCode |-> 0]

DispatchInit ==
    /\ pc = "r_parsed"
    /\ options \in CommandLines
    /\ flows = <<>>
    /\ flags = NoFlags /\ cur = NoCommitData /\ decisions = <<>>
    /\ outcomes = <<>> /\ records = <<>> /\ exitCode = -1
    /\ answers = NoAnswers
    /\ requestArgs = NoArgs /\ cwd = <<>> /\ payloads = <<>>
    /\ aiResponse = NoText /\ commitData = NoCommit
    /\ GitIdle /\ StageIdle /\ GroupIdle /\ GenIdle /\ SingleIdle
    /\ DiffIdle /\ ExcerptIdle

\* new CommandContext(options, args)
CreateContext ==
    /\ pc = "r_parsed"
    /\ flags' = ContextFlags(options)
    /\ pc' = "r_context"
    /\ UNCHANGED <<cur, decisions, outcomes, records, exitCode>>
    /\ UNCHANGED <<gitVars, stageVars, groupVars, genVars, singleVars>>
    /\ UNCHANGED <<diffVars, excerptVars, answers, requestVars, dispatchVars, parseVars>>

\* the rest of run(): the flow it awaits, or the exit after a failed validation
RunFlow ==
    /\ pc = "r_context"
    /\ flows' = Dispatch(flags).flows
    /\ exitCode' = Dispatch(flags).exitCode
    /\ pc' = "r_returned"
    /\ UNCHANGED <<flags, cur, decisions, outcomes, records, options>>
    /\ UNCHANGED <<gitVars, stageVars, groupVars, genVars, singleVars>>
    /\ UNCHANGED <<diffVars, excerptVars, answers, requestVars, parseVars>>

DispatchNext == CreateContext \/ RunFlow

SpecDispatch == DispatchInit /\ [][DispatchNext]_vars

(***************************************************************************)
(* Response parsing: AIManager.parseCommitMessage on a response text, and  *)
(* the test generateCommitMessage makes on its result.                     *)
(* A text is what JSON.parse makes of it (after the code fence is removed) *)
(* together with its lines as the fallback sees them.  A JSON value is     *)
(* [t, s, a]: its type, its text when scalar, its elements when an array.  *)
(* A description is a sequence of <<prefix, text>> items.                  *)
(***************************************************************************)
MaxTextLines == 2    \* most lines of a text that is not JSON

Absent == [t |-> "absent", s |-> "", a |-> <<>>]
Null == [t |-> "null", s |-> "", a |-> <<>>]
Str(x) == [t |-> "string", s |-> x, a |-> <<>>]
Num(x) == [t |-> "number", s |-> x, a |-> <<>>]
Bool(x) == [t |-> "bool", s |-> x, a |-> <<>>]
Arr(xs) == [t |-> "array", s |-> "", a |-> xs]

\* the objects a response may declare
ParsedObjects ==
    [summary : {Absent, Str(""), Str(" "), Str("add login"), Str(" add login "), Num("7")},
     description : {Absent, Str("why"), Num("5")},
     type : {Absent, Str("feat"), Str("")},
     scope : {Absent, Str("auth")},
     breaking : {Absent, Bool("true"), Bool("false")},
     changes : {Absent, Arr(<<>>), Arr(<<"c1", "c2">>), Str("x")},
     issues : {Absent, Arr(<<"12">>)},
     selectedFiles : {Absent, Arr(<<"a">>)}]
NoObject ==
    [summary |-> Absent, description |-> Absent, type |-> Absent, scope |-> Absent,
     breaking |-> Absent, changes |-> Absent, issues |-> Absent, selectedFiles |-> Absent]

\* a line after trim(): its first character ("" when blank), whether it
\* contains 'JSON', its length and its text
TextLine(first, json, len, text) ==
    [first |-> first, mentionsJSON |-> json, length |-> len, text |-> text]
LineKinds ==
    {TextLine("", FALSE, 0, ""), TextLine("{", FALSE, 1, "{"),
     TextLine("}", FALSE, 1, "}"), TextLine("\"", FALSE, 25, "\"summary\": \"add login\","),
     TextLine("H", TRUE, 30, "Here is the JSON you asked for"),
     TextLine("s", FALSE, 10, "short line"),
     TextLine("u", FALSE, 11, "update docs"),
     TextLine("r", FALSE, 40, "rework the retry loop of the http client")}
LineLists == UNION {[1..n -> LineKinds] : n \in 1..MaxTextLines}

\* the lines of a text that is a JSON object: nothing but JSON, or with a
\* long line that starts with neither brace nor quote
ObjectLines ==
    {<<TextLine("{", FALSE, 1, "{"), TextLine("\"", FALSE, 25, "\"summary\": \"add login\","),
       TextLine("}", FALSE, 1, "}")>>,
     <<TextLine("{", FALSE, 1, "{"), TextLine("1", FALSE, 14, "12345678901234"),
       TextLine("}", FALSE, 1, "}")>>}

\* json: "object", "null" (the text `null`), "scalar" (a number, string or
\* array) or "invalid" (JSON.parse throws)
ResponseTexts ==
    {[json |-> "object", fields |-> o, lines |-> l] : o \in ParsedObjects, l \in ObjectLines}
    \cup {[json |-> j, fields |-> NoObject, lines |-> l] :
             j \in {"null", "scalar", "invalid"}, l \in LineLists}

\* JavaScript truthiness
Truthy(v) ==
    CASE v.t = "absent" -> FALSE
      [] v.t = "null" -> FALSE
      [] v.t = "string" -> v.s # ""
      [] v.t = "number" -> v.s # "0"
      [] v.t = "bool" -> v.s = "true"
      [] v.t = "array" -> TRUE

\* String.prototype.trim on the strings of the model
Trim(x) ==
    IF x = " " THEN "" ELSE IF x = " add login " THEN "add login" ELSE x

\* faulty variant: the declared value even when it is missing
OrDefaultNever(v, d) == v
\* v || d
OrDefault(v, d) == IF Truthy(v) THEN v ELSE d

NonEmptyArray(v) == v.t = "array" /\ Len(v.a) > 0

\* the description of the strict path before trim(): parsed.description || '',
\* then the changes as bullets, then the issue references
DescriptionItems(o) ==
    (IF Truthy(o.description) THEN <<<<"", o.description.s>>>> ELSE <<>>)
    \o (IF NonEmptyArray(o.changes)
        THEN [i \in 1..Len(o.changes.a) |-> <<"- ", o.changes.a[i]>>] ELSE <<>>)
    \o (IF NonEmptyArray(o.issues)
        THEN [i \in 1..Len(o.issues.a) |-> <<"Closes #", o.issues.a[i]>>] ELSE <<>>)

\* the try block throws: JSON.parse fails, the summary is missing, blank or
\* has no trim method, or description is not a string when trim() is called
StrictThrows(t) ==
    \/ t.json # "object"
    \/ ~Truthy(t.fields.summary)
    \/ t.fields.summary.t # "string"
    \/ Trim(t.fields.summary.s) = ""
    \/ /\ Truthy(t.fields.description)
       /\ t.fields.description.t # "string"
       /\ ~NonEmptyArray(t.fields.changes)
       /\ ~NonEmptyArray(t.fields.issues)

Proposal(summary, description, type, scope, breaking, selected, strict) ==
    [outcome |-> "proposal", summary |-> summary, description |-> description,
     type |-> type, scope |-> scope, breaking |-> breaking,
     selectedFiles |-> selected, parseSuccess |-> strict]
NullResult ==
    [outcome |-> "null", summary |-> "", description |-> <<>>, type |-> Absent,
     scope |-> Absent, breaking |-> Absent, selectedFiles |-> Absent,
     parseSuccess |-> FALSE]

\* the return of the try block
StrictResult(o) ==
    Proposal(o.summary.s, DescriptionItems(o),
             OrDefault(o.type, Str("chore")), OrDefault(o.scope, Null),
             OrDefault(o.breaking, Bool("false")), OrDefault(o.selectedFiles, Arr(<<>>)),
             TRUE)

\* faulty variant: the length of the line is not tested
KeptByFallbackAnyLength(l) ==
    /\ l.length > 0
    /\ l.first \notin {"{", "}", "\""}
    /\ ~l.mentionsJSON
\* the test of the fallback loop on a trimmed line
KeptByFallback(l) ==
    /\ l.length > 0
    /\ l.first \notin {"{", "}", "\""}
    /\ ~l.mentionsJSON
    /\ l.length > 10

\* the catch block: first kept line is the summary, the others the description
FallbackResult(lines) ==
    LET kept == SelectSeq(lines, KeptByFallback) IN
      IF Len(kept) = 0 THEN NullResult
      ELSE Proposal(kept[1].text,
                    IF Len(kept) = 1
                    THEN <<<<"", "Various updates and improvements">>>>
                    ELSE [i \in 1..(Len(kept) - 1) |-> <<"", kept[i + 1].text>>],
                    Str("chore"), Null, Bool("false"), Arr(<<>>), FALSE)

\* parseCommitMessage on a response text
ParseResponseText(t) ==
    IF StrictThrows(t) THEN FallbackResult(t.lines) ELSE StrictResult(t.fields)

\* generateCommitMessage: commitData && commitData.summary
ReturnsProposal(cd) == cd.outcome = "proposal" /\ cd.summary # ""

ParseInit ==
    /\ pc = "p_parse"
    /\ aiResponse \in ResponseTexts
    /\ commitData = NoCommit
    /\ answers = NoAnswers
    /\ requestArgs = NoArgs /\ cwd = <<>> /\ payloads = <<>>
    /\ options = NoOptions /\ flows = <<>>
    /\ GitIdle /\ StageIdle /\ GroupIdle /\ RunIdle /\ GenIdle /\ SingleIdle
    /\ DiffIdle /\ ExcerptIdle

\* const commitData = this.parseCommitMessage(text)
ParseStep ==
    /\ pc = "p_parse"
    /\ commitData' = ParseResponseText(aiResponse)
    /\ pc' = "p_parsed"
    /\ UNCHANGED aiResponse
    /\ UNCHANGED <<coreVars, diffVars, excerptVars, answers, requestVars, dispatchVars>>

\* the attempt returns the proposal, or throws and counts as failed
AttemptEnds ==
    /\ pc = "p_parsed"
    /\ pc' = IF ReturnsProposal(commitData) THEN "p_returned" ELSE "p_failed"
    /\ UNCHANGED <<aiResponse, commitData>>
    /\ UNCHANGED <<coreVars, diffVars, excerptVars, answers, requestVars, dispatchVars>>

ParseNext == ParseStep \/ AttemptEnds

SpecParse == ParseInit /\ [][ParseNext]_vars

(***************************************************************************)
(* Claims about the grouped run (checked under SpecGrouped)                *)
(***************************************************************************)
Props == 1..Len(proposals)
Applying == pc \in {"g_stage", "g_commit", "g_push"}
Terminated == pc \in {"g_done", "g_cancelled"}

\* positions in the decision log where proposal p was decided in the given pass
Offers(p, ps) == {i \in 1..Len(decisions) : decisions[i].p = p /\ decisions[i].pass = ps}
Decided(p, ps, action) == \E i \in Offers(p, ps) : decisions[i].action = action
Accepts(p) == {i \in 1..Len(decisions) : decisions[i].p = p /\ decisions[i].action = "accept"}
IsAccept(d) == d.action = "accept"
AcceptedSoFar == SelectSeq(decisions, IsAccept)
Succeeded(o) == o.success
CommittedFor(p) == \E i \in 1..Len(commits) : commits[i].p = p

\* C2: a failed apply never stops the pass: the outcomes follow the accepted
\* decisions one for one and in order, a run that is not cancelled offers every
\* proposal, and the committed count is the number of successful applies.
C2_FailureDoesNotBlock ==
    /\ committedCount = Len(SelectSeq(outcomes, Succeeded))
    /\ Len(outcomes) = Len(AcceptedSoFar) - (IF Applying THEN 1 ELSE 0)
    /\ \A i \in 1..Len(outcomes) : outcomes[i].p = AcceptedSoFar[i].p
    /\ pc = "g_done" => \A p \in Props : Offers(p, 1) # {}
    /\ pc = "g_cancelled" => decisions[Len(decisions)].action = "cancel"

\* A succeeds, B fails to apply, C succeeds
C2_Witness ==
    /\ pc = "g_done"
    /\ Len(proposals) = 3
    /\ outcomes = <<[p |-> 1, success |-> TRUE], [p |-> 2, success |-> FALSE],
                    [p |-> 3, success |-> TRUE]>>
    /\ committedCount = 2

\* C3 (as stated): every proposal skipped in pass 1 is offered exactly once
\* more, in pass 2; skipped again it is never offered a third time and never
\* committed.
C3_SkippedOfferedOnceMore ==
    Terminated =>
        \A p \in Props :
            Decided(p, 1, "skip") =>
                /\ Cardinality(Offers(p, 2)) = 1
                /\ (Decided(p, 2, "skip") => ~CommittedFor(p))

\* C3 (amended): a proposal is offered at most once per pass, and in pass 2 only
\* if it was skipped in pass 1; when the run ends without a cancel in pass 1,
\* every proposal skipped in pass 1 has been offered exactly once more; a
\* proposal skipped again is never applied or committed.
C3_SkippedOfferedOnceMoreUnlessCancelled ==
    /\ \A p \in Props :
          /\ Cardinality(Offers(p, 1)) <= 1
          /\ Cardinality(Offers(p, 2)) <= 1
          /\ (Offers(p, 2) # {} => Decided(p, 1, "skip"))
          /\ (Decided(p, 2, "skip") =>
                 /\ ~CommittedFor(p)
                 /\ Accepts(p) = {}
                 /\ \A i \in 1..Len(outcomes) : outcomes[i].p # p)
    /\ pc = "g_done" =>
          \A p \in Props : Decided(p, 1, "skip") => Cardinality(Offers(p, 2)) = 1
    /\ \A i \in 1..Len(decisions) : decisions[i].pass \in {1, 2}

\* one proposal skipped twice, another skipped and then accepted and committed
C3_Witness ==
    /\ pc = "g_done"
    /\ \E p, q \in Props :
          /\ Decided(p, 1, "skip") /\ Decided(p, 2, "skip")
          /\ Decided(q, 1, "skip") /\ Decided(q, 2, "accept") /\ CommittedFor(q)

\* C4: a Cancel stops the run in whichever pass it is given: it is the last
\* decision of the run, nothing is applied after it, and what was committed
\* before it stays committed.
C4_CancelStopsRun ==
    \A i \in 1..Len(decisions) :
        decisions[i].action = "cancel" => (i = Len(decisions) /\ ~Applying)

\* C5: executeCommit is attempted at most once per proposal, and a proposal
\* accepted in pass 1 is not offered in pass 2.
C5_AppliedAtMostOnce ==
    \A p \in Props :
        /\ Cardinality(Accepts(p)) <= 1
        /\ Cardinality({i \in 1..Len(outcomes) : outcomes[i].p = p}) <= 1
        /\ (Decided(p, 1, "accept") => Offers(p, 2) = {})

\* a proposal whose apply failed in pass 1, in a run that went through pass 2
C5_Witness ==
    /\ pc = "g_done"
    /\ pass = 2
    /\ \E p \in Props :
          /\ Decided(p, 1, "accept")
          /\ \E i \in 1..Len(outcomes) : outcomes[i].p = p /\ ~outcomes[i].success

\* C6: when git commit is called for a proposal, the staged set is exactly the
\* proposal's declared files.
C6_StagedIsDeclaredScope ==
    pc = "g_commit" => staged = Range(cur.files)

\* C7: an accepted proposal with an empty or absent file list fails at staging:
\* it never reaches the commit call, nothing is committed for it, and its apply
\* is recorded as failed.
C7_EmptyFilesFailStaging ==
    /\ pc \in {"g_commit", "g_push"} => Len(cur.files) > 0
    /\ \A i \in 1..Len(commits) : Len(proposals[commits[i].p]) > 0
    /\ \A i \in 1..Len(outcomes) :
          Len(proposals[outcomes[i].p]) = 0 => ~outcomes[i].success

\* C12 (as stated): proposals are applied strictly in the order supplied: of
\* any two proposals that are both applied, the one earlier in the list is
\* applied first.
C12_AppliedInSuppliedOrder ==
    \A i, j \in 1..Len(AcceptedSoFar) :
        i < j => AcceptedSoFar[i].p < AcceptedSoFar[j].p

\* C12 (amended): within each pass proposals are applied in the order supplied,
\* and every proposal applied in the review pass is applied after all those
\* applied in the first pass.
C12_AppliedInOrderWithinPass ==
    \A i, j \in 1..Len(AcceptedSoFar) :
        i < j =>
            \/ AcceptedSoFar[i].pass < AcceptedSoFar[j].pass
            \/ /\ AcceptedSoFar[i].pass = AcceptedSoFar[j].pass
               /\ AcceptedSoFar[i].p < AcceptedSoFar[j].p

\* proposals 1 and 2 skipped, 3 applied, then 1 and 2 applied in the review pass
C12_Witness ==
    /\ pc = "g_done"
    /\ Len(proposals) = 3
    /\ Len(AcceptedSoFar) = 3
    /\ AcceptedSoFar[1].p = 3 /\ AcceptedSoFar[1].pass = 1
    /\ AcceptedSoFar[2].p = 1 /\ AcceptedSoFar[2].pass = 2
    /\ AcceptedSoFar[3].p = 2 /\ AcceptedSoFar[3].pass = 2

\* C13: in auto mode confirmGroupedCommit is never invoked, every proposal is
\* decided Accept and applied exactly once, all in the first pass; nothing is
\* queued for or offered in the second pass.
C13_AutoAcceptsAll ==
    flags.auto =>
        /\ \A i \in 1..Len(decisions) :
              /\ ~decisions[i].asked
              /\ decisions[i].action = "accept"
              /\ decisions[i].pass = 1
        /\ pass = 1
        /\ skippedCommits = <<>>
        /\ \A p \in Props : Cardinality(Accepts(p)) <= 1
        /\ Terminated =>
              /\ pc = "g_done"
              /\ \A p \in Props :
                    /\ Cardinality(Accepts(p)) = 1
                    /\ Cardinality({i \in 1..Len(outcomes) : outcomes[i].p = p}) = 1

\* an auto run over three proposals has ended, one apply having failed
C13_Witness ==
    /\ flags.auto
    /\ pc = "g_done"
    /\ Len(proposals) = 3
    /\ Len(decisions) = 3
    /\ Len(outcomes) = 3
    /\ ~outcomes[2].success
    /\ outcomes[3].success

\* C23: whenever no apply is in progress, and so whenever the count is
\* reported (on Cancel and at the end of the run), committedCount equals the
\* number of proposals for which a commit has been created in the repository.
C23_CountEqualsCommitsCreated ==
    ~Applying => committedCount = Cardinality({p \in Props : CommittedFor(p)})

(***************************************************************************)
(* Claims about generateCommitMessage (checked under SpecGen)              *)
(***************************************************************************)
\* C1: the completion call is made exactly k times when attempt k is the first
\* to succeed (k = 2: two calls, no further retry), and exactly 3 times,
\* followed by the fatal error, when every attempt fails.
C1_CallsUntilFirstSuccess ==
    /\ calls = Len(genLog)
    /\ calls <= 3
    /\ \A i \in 1..(Len(genLog) - 1) : ~AttemptSucceeds(genLog[i])
    /\ (pc = "gen_done" /\ genResult = "returned") =>
          (calls >= 1 /\ AttemptSucceeds(genLog[calls]))
    /\ (pc = "gen_done" /\ genResult = "threw") =>
          (calls = 3 /\ \A i \in 1..3 : ~AttemptSucceeds(genLog[i]))
    /\ (\E i \in 1..Len(genLog) : AttemptSucceeds(genLog[i])) =>
          (pc = "gen_done" /\ genResult = "returned")
    /\ (Len(genLog) > 0 /\ ~AttemptSucceeds(genLog[Len(genLog)]) /\ Len(genLog) < 3) =>
          pc \in {"gen_sleep", "gen_call"}

\* success on attempt 2, after a network error
C1_Witness ==
    /\ pc = "gen_done"
    /\ genResult = "returned"
    /\ calls = 2
    /\ genLog[1].kind = "network_error"
    /\ genLog[2].kind = "json_summary"

\* C19: when every attempt of generateCommitMessage has failed, the error it
\* throws carries the message of the failure of the last attempt (not of an
\* earlier one), after exactly maxRetries attempts.
C19_FatalCarriesLastError ==
    (pc = "gen_done" /\ genResult = "threw") =>
        /\ Len(genLog) = maxRetries
        /\ genError.attempts = maxRetries
        /\ genError.last = AttemptError(genLog[Len(genLog)])

\* the request failed twice, the third answer could not be parsed
C19_Witness ==
    /\ pc = "gen_done"
    /\ genResult = "threw"
    /\ genLog[1].kind = "network_error"
    /\ genLog[2].kind = "network_error"
    /\ genLog[3].kind = "fragments"
    /\ genError.last = "Generated commit message could not be parsed or was empty"

\* C27: the engine sleeps exactly once between failed attempt k and attempt
\* k + 1, for 2^k time units (2, then 4), and never before the first attempt,
\* after a successful attempt or after the last failed attempt.
C27_BackoffBetweenFailedAttempts ==
    pc \in {"gen_call", "gen_sleep", "gen_done"} =>
        /\ \A k \in 1..Len(sleeps) : sleeps[k] = 2 ^ k
        /\ pc = "gen_call" => Len(sleeps) = calls
        /\ pc = "gen_sleep" => (Len(sleeps) = calls - 1 /\ calls < maxRetries)
        /\ pc = "gen_done" => Len(sleeps) = calls - 1
        /\ Len(sleeps) <= maxRetries - 1

\* three failed attempts: two sleeps, of 2 and 4, and none after the third
C27_Witness ==
    /\ pc = "gen_done"
    /\ genResult = "threw"
    /\ calls = 3
    /\ sleeps = <<2, 4>>

(***************************************************************************)
(* Claims about the single-commit run (checked under SpecSingle)           *)
(***************************************************************************)
\* C10: in single-commit mode a staging, commit or push failure of the
\* accepted proposal aborts the run with a non-zero exit; no completion call,
\* prompt, staging or commit follows it.
C10_ApplyFailureAborts ==
    failedApply => (pc = "s_failed" /\ exitCode = 1)

\* C11: in a single-commit run with --only, whatever the completion response
\* was (an empty selectedFiles list and the heuristic fallback parse included),
\* the files staged for the commit are the files the response identified in
\* selectedFiles (those of them that have a change) and no file outside them.
C11_OnlyStagesSelected ==
    (flags.only /\ ~flags.files /\ pc = "s_commit") =>
        /\ staged \subseteq Range(cur.selectedFiles)
        /\ Range(cur.selectedFiles) \cap pending \subseteq staged

\* C20: in a single-commit run in which every completion call fails (so no
\* proposal is ever shown), the completion collaborator is invoked exactly
\* maxRetries = 3 times over the whole run, and the run then ends in error.
C20_ThreeCallsThenFatal ==
    decisions = <<>> =>
        /\ totalCalls <= maxRetries
        /\ pc = "s_failed" => totalCalls = maxRetries

(***************************************************************************)
(* Claims about stageSelectedFiles (checked under SpecStage)               *)
(***************************************************************************)
StageReturned == pc = "stage_done" /\ stageResult = "returned"

\* C8 (as stated): a stageSelectedFiles(F) call that returns normally leaves
\* the staged set equal to exactly F, whatever the prior index and working tree.
C8_StagedEqualsInput ==
    StageReturned => staged = Range(selectedFiles)

\* C8 (amended): a stageSelectedFiles(F) call that returns normally leaves the
\* staged set equal to exactly the files of F that have a pending change, so
\* exactly F when every file of F has one; nothing outside F stays staged.
C8_StagedEqualsChangedInput ==
    StageReturned =>
        /\ staged = Range(selectedFiles) \cap pending
        /\ (Range(selectedFiles) \subseteq pending => staged = Range(selectedFiles))

\* a.txt staged alone although another changed file was staged before the call
C8_Witness ==
    /\ StageReturned
    /\ selectedFiles = <<"a">>
    /\ stagedBefore = {"b"}
    /\ pending = {"a", "b", "c"}
    /\ staged = {"a"}

\* C9: stageSelectedFiles with an empty (or missing) list throws and leaves
\* the index as it was; neither reset nor add is called.
C9_EmptyListNoMutation ==
    (pc = "stage_done" /\ Len(selectedFiles) = 0) =>
        /\ stageResult = "threw"
        /\ staged = stagedBefore
        /\ gitOps = <<>>

C9_Witness ==
    /\ pc = "stage_done"
    /\ selectedFiles = <<>>
    /\ stagedBefore = {"a", "b"}
    /\ stageResult = "threw"

(***************************************************************************)
(* Claims about diff windowing (checked under SpecWindow)                  *)
(***************************************************************************)
Hunk(c, d) == [kind |-> "hunk", newStart |-> c, hasCount |-> TRUE, newCount |-> d]

\* C14: for every diff text the list extractChangedLines returns is strictly
\* ascending, hence without duplicates.
C14_ChangedLinesStrictlyAscending ==
    pc \in {"x_sentinel", "x_blocks", "x_done"} =>
        \A i, j \in 1..Len(changedLines) :
            i < j => changedLines[i] < changedLines[j]

\* two overlapping hunks, the later one first in the text
C14_Witness ==
    /\ pc = "x_blocks"
    /\ diffOutput = <<Hunk(12, 2), Hunk(10, 4)>>
    /\ changedLines = <<10, 11, 12, 13>>

\* the lines a header stands for: c .. c + d - 1, d being 1 only when omitted
HeaderLines(h) ==
    IF h.hasCount THEN {h.newStart + k : k \in 0..(h.newCount - 1)} ELSE {h.newStart}

\* C24: extractChangedLines returns exactly the lines c .. c+d-1 of the hunk
\* headers of the diff, d taken as 1 only when the count is omitted; a header
\* with an explicit count of 0 contributes no line.
C24_HeaderContributesItsLines ==
    pc \in {"x_sentinel", "x_blocks", "x_done"} =>
        Range(changedLines) =
            UNION {HeaderLines(diffOutput[i]) :
                      i \in {j \in 1..Len(diffOutput) : diffOutput[j].kind = "hunk"}}

\* the lines of a block or window
LineRange(b) == b.startLine..b.endLine
\* the window of changed line L as the specification gives it
ClaimedWindow(L) ==
    [startLine |-> Max(1, L - radius), endLine |-> Min(totalLines, L + radius)]

\* C25: the blocks of getContextBlocks cover exactly the lines of the windows
\* [max(1, L-R), min(totalLines, L+R)] of the changed lines: every window lies
\* within one block, and every line of a block is in some window.
C25_BlocksCoverExactlyTheWindows ==
    pc = "x_done" =>
        /\ UNION {LineRange(blocks[i]) : i \in 1..Len(blocks)}
              = UNION {LineRange(ClaimedWindow(changedLines[k])) : k \in 1..Len(changedLines)}
        /\ \A k \in 1..Len(changedLines) :
              \E i \in 1..Len(blocks) :
                  LineRange(ClaimedWindow(changedLines[k])) \subseteq LineRange(blocks[i])

\* a block that grew beyond its first window, in a file that cuts the last one
C25_Witness ==
    /\ pc = "x_done"
    /\ Len(blocks) = 2
    /\ blocks[1].endLine > ClaimedWindow(changedLines[1]).endLine
    /\ blocks[2].endLine = totalLines
    /\ changedLines[Len(changedLines)] + radius > totalLines

\* C15: the blocks getContextBlocks returns are in ascending order of startLine
\* and neither overlap nor touch: each startLine is greater than the previous
\* block's endLine + 1.
C15_BlocksSortedAndApart ==
    pc = "x_done" =>
        \A i \in 1..(Len(blocks) - 1) :
            /\ blocks[i].startLine < blocks[i + 1].startLine
            /\ blocks[i + 1].startLine > blocks[i].endLine + 1

\* windows were merged into a first block, and a second block starts two
\* lines after its end
C15_Witness ==
    /\ pc = "x_done"
    /\ Len(blocks) = 2
    /\ Len(changedLines) > 2
    /\ blocks[2].startLine = blocks[1].endLine + 2

\* C16: the window merge is idempotent: merging the blocks it returned again,
\* by the same rule, gives the same blocks.
C16_MergeIdempotent ==
    pc = "x_done" => MergeWindows(blocks) = blocks

\* several windows were merged, and more than one block is left
C16_Witness ==
    /\ pc = "x_done"
    /\ Len(blocks) >= 2
    /\ Len(changedLines) > Len(blocks)
    /\ MergeWindows(blocks) = blocks

\* C17: for the header `@@ -10,2 +10,4 @@`, a 20-line file and radius 3,
\* extractChangedLines gives [10, 11, 12, 13] and getContextBlocks gives the
\* single block 7..16.
C17_WorkedExample ==
    (pc = "x_done" /\ diffOutput = <<Hunk(10, 4)>> /\ totalLines = 20 /\ radius = 3) =>
        /\ changedLines = <<10, 11, 12, 13>>
        /\ blocks = <<[startLine |-> 7, endLine |-> 16]>>

C17_Witness ==
    /\ pc = "x_done"
    /\ diffOutput = <<Hunk(10, 4)>>
    /\ totalLines = 20
    /\ radius = 3
    /\ Len(blocks) = 1
    /\ blocks[1].startLine = 7
    /\ blocks[1].endLine = 16

(***************************************************************************)
(* Claims about getFileContentsWithRadius (checked under SpecExcerpt)      *)
(***************************************************************************)
EntriesOf(i) == {e \in contents : e.path = statusFiles[i].path}

\* the call has not raised, and contents holds exactly one entry for every
\* file the loop has dealt with and none for any other
OneEntryPerFileDone ==
    /\ pc # "e_raised"
    /\ \A e \in contents : \E i \in 1..Len(statusFiles) : e.path = statusFiles[i].path
    /\ \A i \in 1..Len(statusFiles) :
          Cardinality(EntriesOf(i)) = (IF i < fileIdx THEN 1 ELSE 0)
    /\ pc = "e_returned" => fileIdx = Len(statusFiles) + 1

\* C18: getFileContentsWithRadius never raises and returns exactly one entry
\* (excerpt, placeholder or error note) per input file, whatever fails in the
\* exists / stat / read / diff calls; what happens for one file never changes
\* the entry already written for another.
C18_OneEntryPerFileNeverRaises ==
    /\ []OneEntryPerFileDone
    /\ [][\A e \in contents : e \in contents']_vars

\* the stat of the first file failed, the second file took the fallback path
\* whose read failed as well, and the call returned an entry for each
C18_Witness ==
    /\ pc = "e_returned"
    /\ Len(statusFiles) = 2
    /\ [path |-> "a", kind |-> "error", read |-> FALSE] \in contents
    /\ [path |-> "b", kind |-> "error", read |-> TRUE] \in contents
    /\ Cardinality(contents) = 2

(***************************************************************************)
(* Claims about buildStructuredRequest (checked under SpecRequest)         *)
(***************************************************************************)
\* C21: buildStructuredRequest is deterministic and free of side effects: two
\* calls on equal arguments return identical payloads whatever the ambient
\* state (the working directory of the process) is at each call, and a call
\* changes neither its arguments nor any collaborator's state.
C21_SameArgumentsSamePayload ==
    /\ \A i, j \in 1..Len(payloads) : payloads[i] = payloads[j]
    /\ GitIdle
    /\ requestArgs \in RequestArguments

(***************************************************************************)
(* Claims about run() (checked under SpecDispatch)                         *)
(***************************************************************************)
\* the flow the command line asks for, by the precedence clean, test, grouped,
\* pull-request, single-commit
RequestedFlow ==
    IF options.clean THEN "clean"
    ELSE IF options.test THEN "test"
    ELSE IF options.grouped THEN "grouped"
    ELSE IF options.pullRequest THEN "pull-request"
    ELSE "single-commit"

\* C22: a run whose flag validation passes enters exactly one flow, the first
\* of clean, test, grouped, pull-request, single-commit that the command line
\* asks for; in particular --pull-request without --clean, --test and --grouped
\* enters the pull-request flow and never the single-commit flow.
C22_DispatchByPrecedence ==
    (pc = "r_returned" /\ exitCode = 0) => flows = <<RequestedFlow>>

(***************************************************************************)
(* Claims about the excerpt of one file (checked under SpecOneFile)        *)
(***************************************************************************)
TheFile == statusFiles[1]
TheEntry == CHOOSE e \in contents : e.path = TheFile.path
StatOk == answers.exists /\ ~answers.stat.threw
SmallEnough == StatOk /\ answers.stat.size <= sizeLimit
Textual == SmallEnough /\ ~answers.binary
NewOne == TheFile.working_dir = "?" \/ TheFile.index = "A"

Parsed == pc \in {"p_parsed", "p_returned", "p_failed"}
DeclaresSummary ==
    /\ aiResponse.json = "object"
    /\ aiResponse.fields.summary.t = "string"
    /\ aiResponse.fields.summary.s \notin {"", " "}
DeclaresNoSummary ==
    \/ aiResponse.json # "object"
    \/ aiResponse.fields.summary.t = "absent"
    \/ aiResponse.fields.summary.t = "string" /\ aiResponse.fields.summary.s \in {"", " "}
ProseLine(l) ==
    l.length > 10 /\ l.first \notin {"{", "}", "\""} /\ ~l.mentionsJSON
ProseLines == {i \in 1..Len(aiResponse.lines) : ProseLine(aiResponse.lines[i])}
FirstProseLine == CHOOSE i \in ProseLines : \A j \in ProseLines : i <= j

\* C28: parsing a response text ends with a proposal or the no-result value,
\* never an exception; a declared summary (with a textual description) wins
\* over the lines; with no declared summary the first line of prose is the
\* summary, and there is no result exactly when there is no such line; every
\* proposal has a non-empty summary, and the attempt fails when there is none.
C28_ParseNeverRaisesSummaryNonEmpty ==
    Parsed =>
      /\ commitData.outcome \in {"proposal", "null"}
      /\ commitData.outcome = "proposal" => commitData.summary # ""
      /\ (DeclaresSummary /\ aiResponse.fields.description.t \in {"absent", "string"})
            => /\ commitData.parseSuccess
               /\ commitData.summary = aiResponse.fields.summary.s
      /\ commitData.parseSuccess => DeclaresSummary
      /\ DeclaresNoSummary =>
            IF ProseLines = {} THEN commitData.outcome = "null"
            ELSE /\ commitData.outcome = "proposal"
                 /\ ~commitData.parseSuccess
                 /\ commitData.summary = aiResponse.lines[FirstProseLine].text
      /\ pc = "p_returned" => commitData.outcome = "proposal" /\ commitData.summary # ""
      /\ pc = "p_failed" <=> (pc # "p_parsed" /\ commitData.outcome = "null")

\* a text that is not JSON and has no line of prose ended as a failed attempt
C28_Witness ==
    /\ pc = "p_failed"
    /\ aiResponse.json = "invalid"
    /\ Len(aiResponse.lines) = 2
    /\ aiResponse.lines[1].text = "short line"
    /\ commitData.outcome = "null"

Declared(v) == Truthy(v)
ExpectedItems ==
    LET o == aiResponse.fields IN
      (IF Declared(o.description) THEN <<<<"", o.description.s>>>> ELSE <<>>)
      \o (IF o.changes.t = "array"
          THEN [i \in 1..Len(o.changes.a) |-> <<"- ", o.changes.a[i]>>] ELSE <<>>)
      \o (IF o.issues.t = "array"
          THEN [i \in 1..Len(o.issues.a) |-> <<"Closes #", o.issues.a[i]>>] ELSE <<>>)

\* C29: a strictly parsed response with a non-empty summary gives a proposal
\* with the declared type, scope and breaking flag, or 'chore', none and
\* false for what is not declared; its description is the declared one
\* followed by the changes and the issue references; the attempt returns it.
C29_StrictProposalFields ==
    (Parsed /\ commitData.parseSuccess) =>
      LET o == aiResponse.fields IN
        /\ commitData.outcome = "proposal"
        /\ commitData.summary = o.summary.s
        /\ commitData.type = IF Declared(o.type) THEN o.type ELSE Str("chore")
        /\ commitData.scope = IF Declared(o.scope) THEN o.scope ELSE Null
        /\ commitData.breaking = IF Declared(o.breaking) THEN o.breaking ELSE Bool("false")
        /\ commitData.description = ExpectedItems
        /\ pc # "p_failed"

\* a summary with changes and issues but no type was returned as a chore
C29_Witness ==
    /\ pc = "p_returned"
    /\ commitData.parseSuccess
    /\ aiResponse.fields.type = Absent
    /\ aiResponse.fields.scope = Str("auth")
    /\ aiResponse.fields.description = Str("why")
    /\ commitData.type = Str("chore")
    /\ commitData.description
         = <<<<"", "why">>, <<"- ", "c1">>, <<"- ", "c2">>, <<"Closes #", "12">>>>


(***************************************************************************)
(* Termination of the grouped run (checked under SpecGrouped)              *)
(***************************************************************************)
\* steps the current iteration may still take
PhaseLeft ==
    CASE pc = "g_decide" -> 4
      [] pc = "g_stage" -> 3
      [] pc = "g_commit" -> 2
      [] pc = "g_push" -> 1
      [] OTHER -> 0
\* an upper bound on the steps the run may still take
StepsLeft ==
    IF Terminated THEN 0
    ELSE IF pass = 1
    THEN 4 * (2 * (Len(proposals) - idx) + Len(skippedCommits))
           + (IF pc = "g_decide" THEN 8 ELSE PhaseLeft)
    ELSE 4 * (Len(skippedCommits) - idx) + PhaseLeft

DecisionsBounded ==
    /\ pass \in {1, 2}
    /\ Len(decisions) <= 2 * Len(proposals)
    /\ \A p \in Props :
         /\ Cardinality(Offers(p, 1)) <= 1
         /\ Cardinality(Offers(p, 2)) <= 1
         /\ Offers(p, 2) # {} => Decided(p, 1, "skip")
    /\ \A i \in 1..Len(decisions) : decisions[i].p \in Props /\ decisions[i].pass \in {1, 2}
    /\ StepsLeft >= 0
    /\ ~Terminated => ENABLED GroupedNext

\* C30: a grouped run over N proposals terminates (every step lowers a
\* bound on the steps left, and the run can step until it has ended) and
\* asks for at most two decisions per proposal, the second one only after a
\* Skip in the first pass; there are only two passes.
C30_TerminatesWithinTwoPasses ==
    []DecisionsBounded /\ [][StepsLeft' < StepsLeft]_vars

\* a run that ended after every proposal was skipped and decided again
C30_Witness ==
    /\ pc = "g_done"
    /\ Len(proposals) >= 2
    /\ Len(decisions) = 2 * Len(proposals)
    /\ \A p \in Props : Decided(p, 1, "skip") /\ Offers(p, 2) # {}


(***************************************************************************)
(* Sequencing of the grouped run (checked under SpecGrouped)               *)
(***************************************************************************)
ApplyEnded == gitOps = <<>> /\ Len(outcomes) = Len(AcceptedSoFar)
OneApplyUnderWay ==
    /\ Len(outcomes) + 1 = Len(AcceptedSoFar)
    /\ decisions[Len(decisions)].action = "accept"
    /\ decisions[Len(decisions)].p = cur.p
ProposalsInTurn ==
    /\ pc = "g_decide" => ApplyEnded
    /\ Applying => OneApplyUnderWay
DecisionsBetweenApplies ==
    /\ decisions' # decisions => pc = "g_decide" /\ ApplyEnded
    /\ <<pending, staged, commits>>' # <<pending, staged, commits>>
          => Applying /\ decisions' = decisions
    /\ pc' = "g_cancelled" => pc = "g_decide" /\ ApplyEnded

\* C31: proposals are processed one at a time: a decision is requested only
\* when the apply of every accepted proposal before it has ended with an
\* outcome, the index changes only during the apply of the one proposal
\* accepted last, and a Cancel ends the run only at a decision.
C31_OneProposalAtATime ==
    []ProposalsInTurn /\ [][DecisionsBetweenApplies]_vars

\* a Cancel that came after one apply that failed and one that succeeded
C31_Witness ==
    /\ pc = "g_cancelled"
    /\ Len(outcomes) = 2
    /\ ~outcomes[1].success
    /\ outcomes[2].success
    /\ decisions[Len(decisions)].action = "cancel"


(***************************************************************************)
(* Reset before the adds (checked under SpecGrouped)                       *)
(***************************************************************************)
ResetOp == <<"reset", "HEAD">>
\* the git calls of one stageSelectedFiles(files): one reset, then adds of
\* the files in order
ResetOnceThenAdds(ops, files) ==
    /\ Len(ops) >= 1
    /\ Len(ops) <= Len(files) + 1
    /\ ops[1] = ResetOp
    /\ \A i \in 2..Len(ops) : ops[i] = <<"add", files[i - 1]>>
StagingIsolated ==
    /\ (pc = "g_stage" /\ Len(cur.files) > 0) =>
         \A failAt \in 0..(Len(cur.files) + 1) :
            LET r == ExecuteStaging(cur, staged, pending, failAt) IN
              /\ ResetOnceThenAdds(r.ops, cur.files)
              /\ r.ok => Len(r.ops) = Len(cur.files) + 1
              /\ failAt # 1 => r.staged \subseteq Range(cur.files)
              /\ failAt = 1 => r.staged = staged
    /\ (pc = "g_commit" /\ Len(cur.files) > 0) =>
         /\ ResetOnceThenAdds(gitOps, cur.files)
         /\ staged \subseteq Range(cur.files)
StagingDropsResidue ==
    (pc = "g_stage" /\ pc' = "g_commit" /\ Len(cur.files) > 0) =>
        /\ staged' \subseteq Range(cur.files)
        /\ (staged \ Range(cur.files)) \cap staged' = {}

\* C32: stageSelectedFiles on a non-empty list resets the index exactly
\* once, before every add, so that what an earlier proposal of the run left
\* staged (also one whose staging failed after some adds) is not in the
\* staged set of the next proposal staged through it.
C32_ResetOnceBeforeAdds ==
    []StagingIsolated /\ [][StagingDropsResidue]_vars

\* the second proposal staged alone after the apply of the first, on two
\* other files, failed before its commit
C32_Witness ==
    /\ pc = "g_commit"
    /\ cur.p = 2
    /\ proposals[1] = <<"b", "c">>
    /\ proposals[2] = <<"a">>
    /\ Len(outcomes) = 1
    /\ ~outcomes[1].success
    /\ commits = <<>>
    /\ staged = {"a"}
    /\ gitOps = <<ResetOp, <<"add", "a">>>>


(***************************************************************************)
(* Persistence in the single-commit run (checked under SpecSingle)         *)
(***************************************************************************)
SavedBeforeAsked ==
    /\ Len(records) = Len(decisions) + (IF pc = "s_confirm" THEN 1 ELSE 0)
    /\ \A i \in 1..Len(records) : records[i].request
    /\ pc = "s_confirm" =>
         /\ cur.gen = Len(records)
         /\ records[cur.gen] = [p |-> attempts, accepted |-> FALSE, request |-> TRUE]
StatusFollowsDecision ==
    /\ decisions' # decisions =>
         /\ pc = "s_confirm"
         /\ cur.gen \in 1..Len(records)
         /\ ~records[cur.gen].accepted
    /\ (pc = "s_confirm" /\ pc' = "s_stage") =>
         /\ records'[cur.gen].accepted
         /\ staged' = staged /\ gitOps' = <<>>
    /\ (pc = "s_confirm" /\ pc' = "s_cancelled") =>
         /\ ~records'[cur.gen].accepted
         /\ exitCode' = 0

ProposalAsCreated == ParseCommitMessage(genLog[Len(genLog)])

\* C34: after a proposal is created no operation of the run changes its
\* fields other than attaching the tracking identifier: the commit data the
\* decision is asked for carries the selectedFiles (and the empty files
\* list) the proposal was created with.
C34_ProposalFieldsUnchanged ==
    pc = "s_confirm" =>
        /\ cur.selectedFiles = ProposalAsCreated.selectedFiles
        /\ cur.files = <<>>


(***************************************************************************)
(* Well-formed blocks (checked under SpecWindow)                           *)
(***************************************************************************)
WellFormed(b) == 1 <= b.startLine /\ b.startLine <= b.endLine /\ b.endLine <= totalLines

\* C35: every block getContextBlocks returns is a range inside the file,
\* 1 <= startLine <= endLine <= totalLines, whatever changed lines the diff
\* gave (line 0 and lines beyond the end of the file included).
C35_BlocksInsideFile ==
    pc = "x_done" => \A i \in 1..Len(blocks) : WellFormed(blocks[i])


(***************************************************************************)
(* Termination of the single-commit run (checked under SpecSingle)         *)
(***************************************************************************)
SingleEnded == pc \in {"s_done", "s_failed", "s_cancelled"}
\* steps the current iteration of the while loop may still take
IterationLeft ==
    CASE pc = "gen_call" -> 5 + 2 * (maxRetries - attempt) + 2
      [] pc = "gen_sleep" -> 5 + 2 * (maxRetries - attempt) + 1
      [] pc = "gen_done" -> 5
      [] pc = "s_confirm" -> 4
      [] pc = "s_stage" -> 3
      [] pc = "s_commit" -> 2
      [] pc = "s_push" -> 1
      [] OTHER -> 0
\* an upper bound on the steps the run may still take
SingleStepsLeft ==
    IF SingleEnded THEN 0
    ELSE (5 + 2 * maxRetries + 1) * (maxAttempts - attempts) + IterationLeft

AtMostThreeProposals ==
    /\ attempts \in 1..maxAttempts
    /\ Len(decisions) <= maxAttempts
    /\ Len(records) <= maxAttempts
    /\ \A i \in 1..Len(decisions) :
         /\ decisions[i].p \in 1..attempts
         /\ \A j \in 1..Len(decisions) : i < j => decisions[i].p < decisions[j].p
    /\ SingleStepsLeft >= 0
    /\ ~SingleEnded => ENABLED SingleNext
    /\ (pc = "s_done" /\ Len(decisions) > 0 /\ outcomes = <<>>
          /\ decisions[Len(decisions)].action = "regenerate")
        => commits = <<>> /\ exitCode = 0
RegenerateOnLastEnds ==
    /\ SingleStepsLeft' < SingleStepsLeft
    /\ (pc = "s_confirm" /\ attempts = maxAttempts
          /\ Len(decisions') > Len(decisions)
          /\ decisions'[Len(decisions')].action = "regenerate")
        => /\ pc' = "s_done"
           /\ exitCode' = 0
           /\ UNCHANGED <<pending, staged, commits>>
           /\ gitOps' = <<>>

\* C36: a single-commit run terminates (every step lowers a bound on the
\* steps left, and the run can step until it has ended) and asks for a
\* decision on at most 3 proposals, numbered by the one counter that
\* failures advance as well; a Regenerate on the third ends the run with
\* exit code 0 and without staging or committing anything.
C36_SingleRunTerminates ==
    []AtMostThreeProposals /\ [][RegenerateOnLastEnds]_vars

\* a failed generation, then Regenerate on the two proposals that followed
C36_Witness ==
    /\ pc = "s_done"
    /\ attempts = maxAttempts
    /\ Len(decisions) = 2
    /\ decisions[1].p = 2 /\ decisions[1].action = "regenerate"
    /\ decisions[2].p = 3 /\ decisions[2].action = "regenerate"
    /\ commits = <<>>
    /\ exitCode = 0


(***************************************************************************)
(* Claims about the grouping call (checked under SpecGroupGen)             *)
(***************************************************************************)
NotAProposalList(r) == r.kind # "array" \/ Len(r.commits) = 0
GroupingDone == pc \in {"gen_done", "g_decide", "g_nothing", "g_failed"}

\* C37: generateGroupedCommits returns a non-empty array, the first one a
\* response carried, or raises after exactly 3 attempts that all failed; a
\* response that is not JSON, not an array or an empty array is a failed
\* attempt, and the orchestrator never starts on an empty list.
C37_NonEmptyListOrThreeFailures ==
    /\ calls <= maxRetries
    /\ GroupingDone =>
         /\ Len(genLog) = calls
         /\ \A i \in 1..(calls - 1) : NotAProposalList(genLog[i])
         /\ genResult = "returned" =>
              /\ ~NotAProposalList(genLog[calls])
              /\ proposals = genLog[calls].commits
              /\ Len(proposals) > 0
         /\ genResult = "threw" =>
              /\ calls = maxRetries
              /\ NotAProposalList(genLog[calls])
              /\ proposals = <<>>
    /\ pc # "g_nothing"
    /\ pc = "g_decide" => Len(proposals) > 0 /\ genResult = "returned"
    /\ pc = "g_failed" => genResult = "threw" /\ exitCode = 1

\* text that is not JSON, then an object, then an empty array: the call raised
C37_Witness ==
    /\ pc = "g_failed"
    /\ calls = 3
    /\ genLog[1].kind = "invalid_json"
    /\ genLog[2].kind = "object"
    /\ genLog[3] = [kind |-> "array", commits |-> <<>>]
    /\ genError.attempts = 3


(***************************************************************************)
(* Generation records of the grouped run (checked under SpecGrouped)       *)
(***************************************************************************)
\* C38: a generation record is marked accepted only for a proposal whose
\* stage, commit and push all succeeded: once the apply of an accepted
\* proposal has failed, its record is not marked accepted.
C38_AcceptedOnlyIfApplied ==
    /\ Len(outcomes) <= Len(records)
    /\ \A i \in 1..Len(outcomes) :
         /\ records[i].p = outcomes[i].p
         /\ ~outcomes[i].success => ~records[i].accepted


(***************************************************************************)
(* Excerpts of staged modifications (checked under SpecFilesMode)          *)
(***************************************************************************)
LastFile == statusFiles[fileIdx - 1]
LastEntry == CHOOSE e \in contents : e.path = LastFile.path
PlainTextFile ==
    /\ answers.exists
    /\ ~answers.stat.threw /\ answers.stat.size <= sizeLimit
    /\ ~answers.binary
    /\ ~answers.read.threw
    /\ answers.diff # "throws"

\* C39: a modified file that is tracked, readable, not binary and at most
\* 100 KB gets a windowed excerpt around its changed lines also when its
\* changes are staged: in file-selection mode the selected modified files
\* do not get the 'no specific lines detected' sentinel.
C39_StagedModificationWindowed ==
    (pc \in {"f_excerpts", "f_rebuilt"} /\ fileIdx > 1
       /\ LastFile.index = "M" /\ PlainTextFile)
      => LastEntry.kind = "windowed"

====
